---- MODULE Spec2Model ----
(***************************************************************************)
(* Model of the shopping-mall tax calculator: ExcelService (header         *)
(* detection, merged cells, multi-row headers, row extraction),            *)
(* CalculationService (monthly and yearly totals) and the process-files    *)
(* handler of main.ts.                                                     *)
(*                                                                         *)
(* Text.  A JavaScript string is a sequence of characters; a character is  *)
(* a TLA+ string: "a".."z", "A".."Z", "0".."9" and punctuation stand for   *)
(* themselves, " " is a space, "nl" a newline, "dq" a double quote, "won"  *)
(* the won sign, and a Hangul syllable is written by its romanisation (two *)
(* letters or more; the set Hangul lists them):                            *)
(*   hap gye chong so      (summary tokens hap-gye, chong-gye, gye,        *)
(*                          so-gye, chong-hap)                             *)
(*   myeon gwa se          (myeon-se: tax-exempt, gwa-se: taxable)         *)
(*   nal jja geum aek      (nal-jja: date, geum-aek: amount)               *)
(*   nyeon wol il          (year, month, day)                              *)
(* A cell, or any JavaScript value read from a row, is a record            *)
(* [t, n, s]: t = "null" (null, undefined, a hole), "num" (the number n)   *)
(* or "str" (the string s).                                                *)
(***************************************************************************)
EXTENDS Integers, Sequences, FiniteSets

VARIABLES
    sikbomDateContext,  \* ExcelService.sikbomDateContext
    options,            \* the ProcessingOptions object the caller handed over
    batch,              \* process-files: the file paths still to be read
    results,            \* process-files: the local array `results`
    response,           \* process-files: the value the handler returned
    call                \* the last direct call of a service method: op, args, ret

vars == <<sikbomDateContext, options, batch, results, response, call>>

----------------------------------------------------------------------------
(* Values *)

Null == [t |-> "null", n |-> 0, s |-> <<>>]
Num(k) == [t |-> "num", n |-> k, s |-> <<>>]
Str(x) == [t |-> "str", n |-> 0, s |-> x]

Digit == {"0", "1", "2", "3", "4", "5", "6", "7", "8", "9"}
Upper == {"A", "B", "C", "D", "E", "F", "G", "H", "I", "J", "K", "L", "M",
          "N", "O", "P", "Q", "R", "S", "T", "U", "V", "W", "X", "Y", "Z"}
Lower == {"a", "b", "c", "d", "e", "f", "g", "h", "i", "j", "k", "l", "m",
          "n", "o", "p", "q", "r", "s", "t", "u", "v", "w", "x", "y", "z"}
Space == {" ", "nl"}

DigitVal(c) ==
    CASE c = "0" -> 0 [] c = "1" -> 1 [] c = "2" -> 2 [] c = "3" -> 3
      [] c = "4" -> 4 [] c = "5" -> 5 [] c = "6" -> 6 [] c = "7" -> 7
      [] c = "8" -> 8 [] c = "9" -> 9

DigitChar(k) ==
    CASE k = 0 -> "0" [] k = 1 -> "1" [] k = 2 -> "2" [] k = 3 -> "3"
      [] k = 4 -> "4" [] k = 5 -> "5" [] k = 6 -> "6" [] k = 7 -> "7"
      [] k = 8 -> "8" [] k = 9 -> "9"

LowerChar(c) ==
    CASE c = "A" -> "a" [] c = "B" -> "b" [] c = "C" -> "c" [] c = "D" -> "d"
      [] c = "E" -> "e" [] c = "F" -> "f" [] c = "G" -> "g" [] c = "H" -> "h"
      [] c = "I" -> "i" [] c = "J" -> "j" [] c = "K" -> "k" [] c = "L" -> "l"
      [] c = "M" -> "m" [] c = "N" -> "n" [] c = "O" -> "o" [] c = "P" -> "p"
      [] c = "Q" -> "q" [] c = "R" -> "r" [] c = "S" -> "s" [] c = "T" -> "t"
      [] c = "U" -> "u" [] c = "V" -> "v" [] c = "W" -> "w" [] c = "X" -> "x"
      [] c = "Y" -> "y" [] c = "Z" -> "z" [] OTHER -> c

\* String.prototype.toLowerCase
ToLowerCase(s) == [i \in 1..Len(s) |-> LowerChar(s[i])]

\* String.prototype.includes
Includes(s, sub) ==
    \E i \in 0..(Len(s) - Len(sub)) :
        \A j \in 1..Len(sub) : s[i + j] = sub[j]

\* String.prototype.trim
RECURSIVE TrimStart(_)
TrimStart(s) ==
    IF s # <<>> /\ Head(s) \in Space THEN TrimStart(Tail(s)) ELSE s

RECURSIVE TrimEnd(_)
TrimEnd(s) ==
    IF s # <<>> /\ s[Len(s)] \in Space
    THEN TrimEnd(SubSeq(s, 1, Len(s) - 1))
    ELSE s

Trim(s) == TrimEnd(TrimStart(s))

\* Number.prototype.toString of a non-negative integer
RECURSIVE NatDigits(_)
NatDigits(k) ==
    IF k < 10 THEN <<DigitChar(k)>>
    ELSE Append(NatDigits(k \div 10), DigitChar(k % 10))

NumberToString(k) == IF k < 0 THEN <<"-">> \o NatDigits(-k) ELSE NatDigits(k)

\* String(v) / v.toString() of a value that is not null
ValueToString(v) == IF v.t = "num" THEN NumberToString(v.n) ELSE v.s

\* JavaScript truthiness: null, undefined, 0 and '' are falsy
Truthy(v) ==
    \/ v.t = "num" /\ v.n # 0
    \/ v.t = "str" /\ v.s # <<>>

\* parseInt of a run of digits
RECURSIVE DigitsValue(_)
DigitsValue(s) ==
    IF s = <<>> THEN 0
    ELSE 10 * DigitsValue(SubSeq(s, 1, Len(s) - 1)) + DigitVal(s[Len(s)])

\* Math.min, Math.max
Min(a, b) == IF a < b THEN a ELSE b
Max(a, b) == IF a > b THEN a ELSE b

\* The sum of a field over a sequence of records
RECURSIVE SumField(_, _)
SumField(s, field) ==
    IF s = <<>> THEN 0 ELSE Head(s)[field] + SumField(Tail(s), field)

\* The length of the longest prefix of s made of digits
RECURSIVE DigitPrefix(_)
DigitPrefix(s) ==
    IF s # <<>> /\ Head(s) \in Digit THEN 1 + DigitPrefix(Tail(s)) ELSE 0

----------------------------------------------------------------------------
(* Row objects: the objects readExcelFile builds, one per data row.  An     *)
(* object is a sequence of [key, val] entries in insertion order with      *)
(* distinct keys; reading a key the object lacks yields undefined.         *)

Put(obj, key, val) ==
    IF \E i \in 1..Len(obj) : obj[i].key = key
    THEN [i \in 1..Len(obj) |->
            IF obj[i].key = key THEN [key |-> key, val |-> val] ELSE obj[i]]
    ELSE Append(obj, [key |-> key, val |-> val])

Get(obj, key) ==
    IF \E i \in 1..Len(obj) : obj[i].key = key
    THEN obj[CHOOSE i \in 1..Len(obj) : obj[i].key = key].val
    ELSE Null

ObjectKeys(obj) == [i \in 1..Len(obj) |-> obj[i].key]

----------------------------------------------------------------------------
(* Regular expressions.  The date patterns of parseDate are anchored        *)
(* concatenations of three kinds of element: a run of lo..hi digits,       *)
(* one character of a set, and a run of at least lo white-space            *)
(* characters.  A digit run is never followed by a digit element and a     *)
(* white-space run never by a white-space element, so matching the         *)
(* longest run is matching the regular expression.                         *)

D(lo, hi) == [k |-> "d", lo |-> lo, hi |-> hi, cs |-> {}]
C(cs) == [k |-> "c", lo |-> 1, hi |-> 1, cs |-> cs]
W(lo) == [k |-> "w", lo |-> lo, hi |-> 0, cs |-> {}]

RECURSIVE SpacePrefix(_)
SpacePrefix(s) ==
    IF s # <<>> /\ Head(s) \in Space THEN 1 + SpacePrefix(Tail(s)) ELSE 0

RECURSIVE Match(_, _)
Match(pat, s) ==
    IF pat = <<>> THEN s = <<>>
    ELSE LET e == Head(pat) IN
         CASE e.k = "d" ->
                LET n == DigitPrefix(s) IN
                /\ n >= e.lo
                /\ n <= e.hi
                /\ Match(Tail(pat), SubSeq(s, n + 1, Len(s)))
           [] e.k = "c" ->
                /\ s # <<>>
                /\ Head(s) \in e.cs
                /\ Match(Tail(pat), Tail(s))
           [] e.k = "w" ->
                LET n == SpacePrefix(s) IN
                /\ n >= e.lo
                /\ Match(Tail(pat), SubSeq(s, n + 1, Len(s)))

\* parseInt of every digit run of s, left to right: the captured groups
RECURSIVE Groups(_)
Groups(s) ==
    IF s = <<>> THEN <<>>
    ELSE LET n == DigitPrefix(s) IN
         IF n > 0
         THEN <<DigitsValue(SubSeq(s, 1, n))>> \o Groups(SubSeq(s, n + 1, Len(s)))
         ELSE Groups(Tail(s))

----------------------------------------------------------------------------
(* Dates.  A Date is [ok, y, m, d] in local time, m in 1..12; ok = FALSE   *)
(* is parseDate's null.  The host's clock is taken to be at or east of     *)
(* UTC by less than a day (the application's locale is Korean), so that a  *)
(* date built at UTC midnight falls on the same local day.                 *)

NoDate == [ok |-> FALSE, y |-> 0, m |-> 0, d |-> 0]

IsLeap(y) == (y % 4 = 0 /\ y % 100 # 0) \/ y % 400 = 0

DaysInMonth(y, m) ==
    IF m = 2 THEN (IF IsLeap(y) THEN 29 ELSE 28)
    ELSE IF m \in {4, 6, 9, 11} THEN 30 ELSE 31

\* new Date(year, month - 1, day) for month in 1..12, day in 1..31: a day
\* past the end of the month rolls over into the next month
NewDate(y, m, d) ==
    IF d <= DaysInMonth(y, m) THEN [ok |-> TRUE, y |-> y, m |-> m, d |-> d]
    ELSE IF m = 12
         THEN [ok |-> TRUE, y |-> y + 1, m |-> 1, d |-> d - DaysInMonth(y, m)]
         ELSE [ok |-> TRUE, y |-> y, m |-> m + 1, d |-> d - DaysInMonth(y, m)]

\* new Date(days * 86400 * 1000): the civil date `days` days after 1970-01-01
DateFromEpochDays(days) ==
    LET z == days + 719468
        era == z \div 146097
        doe == z - era * 146097
        yoe == (doe - doe \div 1460 + doe \div 36524 - doe \div 146096) \div 365
        doy == doe - (365 * yoe + yoe \div 4 - yoe \div 100)
        mp == (5 * doy + 2) \div 153
        d == doy - (153 * mp + 2) \div 5 + 1
        m == IF mp < 10 THEN mp + 3 ELSE mp - 9
        y == yoe + era * 400 + (IF m <= 2 THEN 1 ELSE 0)
    IN [ok |-> TRUE, y |-> y, m |-> m, d |-> d]

ExcelEpochOffset == 25569
MaxExcelSerial == 2958465
MinYear == 1900
MaxYear == 2100

YearOk(y) == y >= MinYear /\ y <= MaxYear
YmOk(y, m) == YearOk(y) /\ m >= 1 /\ m <= 12
YmdOk(y, m, d) == YmOk(y, m) /\ d >= 1 /\ d <= 31
HmsOk(h, mi, s) == h >= 0 /\ h <= 23 /\ mi >= 0 /\ mi <= 59 /\ s >= 0 /\ s <= 59

\* new Date(string) and Date.parse(string): the runtime's own parser (V8's
\* legacy parser) on the strings that reach it in this model.  Words it
\* does not know are skipped while no number has been read, and after a
\* number they make the string no date: a string without any digit is no
\* date, a day-only string "N<il>" is no date (which is why Strategy 12 is
\* reached at all), and words followed by M/D/YYYY are that date.  Strings
\* of other shapes that fail every pattern are kept out of the inputs.
RECURSIVE SkipWords(_)
SkipWords(s) ==
    IF s # <<>> /\ Head(s) \notin Digit THEN SkipWords(Tail(s)) ELSE s

RangeSep == {"~", "-"}
DotDate == <<D(4, 4), C({"."}), D(1, 2), C({"."}), D(1, 2)>>
IsoDate == <<D(4, 4), C({"-"}), D(1, 2), C({"-"}), D(1, 2)>>
KoreanDate == <<D(4, 4), C({"nyeon"}), W(0), D(1, 2), C({"wol"}), W(0),
                D(1, 2), C({"il"})>>
DotMonth == <<D(4, 4), C({"."}), D(1, 2)>>
Time == <<D(1, 2), C({":"}), D(1, 2), C({":"}), D(1, 2)>>
SlashDate == <<D(1, 2), C({"/"}), D(1, 2), C({"/"}), D(4, 4)>>
Range(p) == p \o <<W(0), C(RangeSep), W(0)>> \o p

NativeDate(s) ==
    LET rest == SkipWords(s)
        g == Groups(rest)
    IN IF Match(SlashDate, rest) /\ YmdOk(g[3], g[1], g[2])
       THEN NewDate(g[3], g[1], g[2])
       ELSE NoDate

\* The hour of a Korean AM/PM time: o-hu (PM) adds 12 except at 12, o-jeon
\* (AM) turns 12 into 0
AmPmHour(s, h) ==
    IF Includes(s, <<"o", "hu">>) /\ h # 12 THEN h + 12
    ELSE IF Includes(s, <<"o", "jeon">>) /\ h = 12 THEN 0
    ELSE h

\* parseDate for a string, Strategies 0 to 13 in the order of the code; a
\* pattern that matches with values out of range falls through to the next
ParseDateString(trimmed, ctx) ==
    LET g == Groups(trimmed) IN
    IF Match(Range(DotDate), trimmed) /\ YmdOk(g[1], g[2], g[3])
        THEN NewDate(g[1], g[2], g[3])
    ELSE IF Match(Range(KoreanDate), trimmed) /\ YmdOk(g[1], g[2], g[3])
        THEN NewDate(g[1], g[2], g[3])
    ELSE IF Match(Range(DotMonth), trimmed) /\ YmOk(g[1], g[2])
        THEN NewDate(g[1], g[2], 1)
    ELSE IF Match(Range(IsoDate), trimmed) /\ YmdOk(g[1], g[2], g[3])
        THEN NewDate(g[1], g[2], g[3])
    ELSE IF Match(DotMonth, trimmed) /\ YmOk(g[1], g[2])
        THEN NewDate(g[1], g[2], 1)
    ELSE IF Match(<<D(4, 4), C({"nyeon"}), W(0), D(1, 2), C({"wol"})>>, trimmed)
            /\ YmOk(g[1], g[2])
        THEN NewDate(g[1], g[2], 1)
    ELSE IF Match(IsoDate \o <<W(1), C({"o"}), C({"jeon", "hu"}), W(1)>> \o Time,
                  trimmed)
            /\ YmdOk(g[1], g[2], g[3])
            /\ HmsOk(AmPmHour(trimmed, g[4]), g[5], g[6])
        THEN NewDate(g[1], g[2], g[3])
    ELSE IF Match(IsoDate \o <<W(1)>> \o Time, trimmed)
            /\ YmdOk(g[1], g[2], g[3]) /\ HmsOk(g[4], g[5], g[6])
        THEN NewDate(g[1], g[2], g[3])
    ELSE IF Match(IsoDate, trimmed) /\ YmdOk(g[1], g[2], g[3])
        THEN NewDate(g[1], g[2], g[3])
    ELSE IF Match(DotDate \o <<W(1)>> \o Time, trimmed)
            /\ YmdOk(g[1], g[2], g[3]) /\ HmsOk(g[4], g[5], g[6])
        THEN NewDate(g[1], g[2], g[3])
    ELSE IF Match(DotDate, trimmed) /\ YmdOk(g[1], g[2], g[3])
        THEN NewDate(g[1], g[2], g[3])
    ELSE IF Match(KoreanDate, trimmed) /\ YmdOk(g[1], g[2], g[3])
        THEN NewDate(g[1], g[2], g[3])
    ELSE IF Match(SlashDate, trimmed) /\ YmdOk(g[3], g[1], g[2])
        THEN NewDate(g[3], g[1], g[2])
    ELSE IF Match(SlashDate, trimmed) /\ g[1] > 12 /\ YmdOk(g[3], g[2], g[1])
        THEN NewDate(g[3], g[2], g[1])
    ELSE IF NativeDate(trimmed).ok /\ YearOk(NativeDate(trimmed).y)
        THEN NativeDate(trimmed)
    ELSE IF /\ Match(<<D(1, 2), C({"il"}), W(0)>>, trimmed)
            /\ ctx.ok
            /\ g[1] >= 1
            /\ g[1] <= 31
            /\ g[1] <= DaysInMonth(ctx.y, ctx.m)
        THEN NewDate(ctx.y, ctx.m, g[1])
    ELSE IF NativeDate(trimmed).ok /\ YearOk(NativeDate(trimmed).y)
        THEN NativeDate(trimmed)
    ELSE NoDate

\* parseDate(dateValue), with this.sikbomDateContext as ctx
ParseDate(dateValue, ctx) ==
    IF dateValue.t = "null" \/ dateValue = Str(<<>>) THEN NoDate
    ELSE IF dateValue.t = "num"
        THEN IF dateValue.n < 1 \/ dateValue.n > MaxExcelSerial THEN NoDate
             ELSE DateFromEpochDays(dateValue.n - ExcelEpochOffset)
    ELSE IF Trim(dateValue.s) = <<>> THEN NoDate
    ELSE ParseDateString(Trim(dateValue.s), ctx)

\* The Unary sign, then digits: parseFloat of a string that holds no "."
\* and no exponent (amounts in this model are whole numbers); NaN is
\* [nan |-> TRUE]
ParseFloat(s) ==
    LET neg == s # <<>> /\ Head(s) = "-"
        body == IF s # <<>> /\ Head(s) \in {"-", "+"} THEN Tail(s) ELSE s
        n == DigitPrefix(body)
    IN IF n = 0 THEN [nan |-> TRUE, v |-> 0]
       ELSE [nan |-> FALSE,
             v |-> IF neg THEN 0 - DigitsValue(SubSeq(body, 1, n))
                   ELSE DigitsValue(SubSeq(body, 1, n))]

AmountNoise == {"won", "$", ","} \cup Space

\* value.replace(/[₩$,\s]/g, '')
Cleaned(s) == SelectSeq(s, LAMBDA c : c \notin AmountNoise)

\* Mutant of parseAmount: Number(cleaned) in the place of parseFloat, which
\* reads the whole text or nothing
ParseAmountOfWholeText(value) ==
    IF value.t = "num" THEN value.n
    ELSE IF value.t = "str"
        THEN LET c == Cleaned(value.s)
                 b == IF c # <<>> /\ Head(c) \in {"-", "+"} THEN Tail(c) ELSE c
             IN IF b # <<>> /\ DigitPrefix(b) = Len(b)
                THEN ParseFloat(c).v ELSE 0
    ELSE 0

\* parseAmount(value)
ParseAmount(value) ==
    IF value.t = "num" THEN value.n
    ELSE IF value.t = "str"
        THEN IF ParseFloat(Cleaned(value.s)).nan THEN 0
             ELSE ParseFloat(Cleaned(value.s)).v
    ELSE 0

\* isSummaryRow: the summary tokens hap-gye, chong-gye, gye, so-gye,
\* chong-hap, total, sum, subtotal
summaryPatterns ==
    << <<"hap", "gye">>, <<"chong", "gye">>, <<"gye">>, <<"so", "gye">>,
       <<"chong", "hap">>, <<"t", "o", "t", "a", "l">>, <<"s", "u", "m">>,
       <<"s", "u", "b", "t", "o", "t", "a", "l">> >>

\* Mutant of isSummaryRow: the comparison without toLowerCase
IsSummaryRowCaseSensitive(dateValue) ==
    IF dateValue.t = "null" \/ dateValue = Str(<<>>) THEN FALSE
    ELSE LET dateStr == Trim(ValueToString(dateValue)) IN
         \E i \in 1..Len(summaryPatterns) :
            Includes(dateStr, summaryPatterns[i])

IsSummaryRow(dateValue) ==
    IF dateValue.t = "null" \/ dateValue = Str(<<>>) THEN FALSE
    ELSE LET dateStr == Trim(ValueToString(dateValue)) IN
         \E i \in 1..Len(summaryPatterns) :
            Includes(ToLowerCase(dateStr), ToLowerCase(summaryPatterns[i]))

----------------------------------------------------------------------------
(* ProcessingOptions.  An optional string that is unset is '' (the code    *)
(* tests these with ! and ||, which treat undefined and '' alike); an      *)
(* unset amountColumns is the empty list (every test of it treats the two  *)
(* alike); hasTaxExemptValues / hasTaxableValues tell whether the keyword  *)
(* lists are set; headerRow = -1 is undefined.                             *)

NalJja == <<"nal", "jja">>
MyeonSeGeumAek == <<"myeon", "se", "geum", "aek">>
GwaSeGeumAek == <<"gwa", "se", "geum", "aek">>
GwaSeYuHyeong == <<"gwa", "se", "yu", "hyeong">>
GeumAek == <<"geum", "aek">>

Or(s, default) == IF s # <<>> THEN s ELSE default

defaultTaxExemptValues ==
    << <<"myeon", "se">>, <<"myeon", "se", "sang", "pum">>, <<"0", "%">>,
       <<"yeong", "se", "yul">>, <<"F", "R", "E", "E">> >>

defaultTaxableValues ==
    << <<"gwa", "se">>, <<"gwa", "se", "sang", "pum">>, <<"1", "0", "%">>,
       <<"bu", "ga", "se">>, <<"T", "A", "X">> >>

\* A MonthlyData record
MonthlyData(y, m, taxExempt, taxable) ==
    [month |-> m, year |-> y, taxExemptAmount |-> taxExempt,
     taxableAmount |-> taxable]

\* taxExemptValues.some(...) / taxableValues.some(...)
MatchesAny(taxType, values) ==
    \E i \in 1..Len(values) :
        \/ Includes(ToLowerCase(taxType), ToLowerCase(values[i]))
        \/ taxType = values[i]

\* The bucket a row's amount is added to
TaxBucket(taxType, taxExemptValues, taxableValues) ==
    IF MatchesAny(taxType, taxExemptValues) THEN "taxExempt"
    ELSE IF MatchesAny(taxType, taxableValues) THEN "taxable"
    ELSE "taxable"

\* options.amountColumns.reduce((sum, colName) => sum + parseAmount(row[colName]), 0)
RECURSIVE SumColumns(_, _)
SumColumns(row, cols) ==
    IF cols = <<>> THEN 0
    ELSE ParseAmount(Get(row, Head(cols))) + SumColumns(row, Tail(cols))

\* The amount of a row in Tax-Type mode
RowAmount(row, opts) ==
    IF opts.useMultiColumnSum /\ opts.amountColumns # <<>>
    THEN SumColumns(row, opts.amountColumns)
    ELSE ParseAmount(Get(row, Or(opts.amountColumn, GeumAek)))

\* groupedByDate, the Map as a sequence of entries in insertion order, with
\* an entry for the month of date: if (!groupedByDate.has(dateKey)) set(...)
WithEntry(grouped, date) ==
    IF \E i \in 1..Len(grouped) : grouped[i].key = <<date.y, date.m>>
    THEN grouped
    ELSE Append(grouped, [key |-> <<date.y, date.m>>, date |-> date,
                          taxExempt |-> 0, taxable |-> 0])

\* Mutant of the classification: without the else, a tax-exempt row is
\* added to the taxable total as well
AddAmountToBoth(grouped, dateKey, amount, bucket) ==
    [i \in 1..Len(grouped) |->
        IF grouped[i].key # dateKey THEN grouped[i]
        ELSE IF bucket = "taxExempt"
             THEN [grouped[i] EXCEPT !.taxExempt = @ + amount,
                                     !.taxable = @ + amount]
             ELSE [grouped[i] EXCEPT !.taxable = @ + amount]]

\* entry.taxExempt += amount or entry.taxable += amount
AddAmount(grouped, dateKey, amount, bucket) ==
    [i \in 1..Len(grouped) |->
        IF grouped[i].key # dateKey THEN grouped[i]
        ELSE IF bucket = "taxExempt"
             THEN [grouped[i] EXCEPT !.taxExempt = @ + amount]
             ELSE [grouped[i] EXCEPT !.taxable = @ + amount]]

\* Mutant of the body of rawData.forEach: without the return on a zero
\* amount, a row of amount 0 opens the entry of its month
AccumulateZeroAmounts(grouped, dateValue, date, amount, bucket) ==
    IF IsSummaryRow(dateValue) THEN grouped
    ELSE IF ~date.ok THEN grouped
    ELSE AddAmount(WithEntry(grouped, date), <<date.y, date.m>>, amount, bucket)

\* The body of rawData.forEach from the parsed values on
Accumulate(grouped, dateValue, date, amount, bucket) ==
    IF IsSummaryRow(dateValue) THEN grouped
    ELSE IF ~date.ok THEN grouped
    ELSE IF amount = 0 THEN grouped
    ELSE AddAmount(WithEntry(grouped, date), <<date.y, date.m>>, amount, bucket)

\* String(row[taxTypeCol] || '').trim()
TaxTypeText(cell) == IF Truthy(cell) THEN Trim(ValueToString(cell)) ELSE <<>>

\* The callback of rawData.forEach in parseMonthlyDataWithTaxType
StepTaxType(grouped, row, opts, ctx) ==
    Accumulate(grouped,
               Get(row, Or(opts.dateColumn, NalJja)),
               ParseDate(Get(row, Or(opts.dateColumn, NalJja)), ctx),
               RowAmount(row, opts),
               TaxBucket(TaxTypeText(Get(row, Or(opts.taxTypeColumn, GwaSeYuHyeong))),
                         IF opts.hasTaxExemptValues THEN opts.taxExemptValues
                         ELSE defaultTaxExemptValues,
                         IF opts.hasTaxableValues THEN opts.taxableValues
                         ELSE defaultTaxableValues))

RECURSIVE GroupByDate(_, _, _, _)
GroupByDate(grouped, rawData, opts, ctx) ==
    IF rawData = <<>> THEN grouped
    ELSE GroupByDate(StepTaxType(grouped, Head(rawData), opts, ctx),
                     Tail(rawData), opts, ctx)

\* Array.from(groupedByDate.values()).map(...)
ToMonthlyData(grouped) ==
    [i \in 1..Len(grouped) |->
        MonthlyData(grouped[i].date.y, grouped[i].date.m,
                    grouped[i].taxExempt, grouped[i].taxable)]

\* parseMonthlyDataWithTaxType(rawData, options)
ParseMonthlyDataWithTaxType(rawData, opts, ctx) ==
    ToMonthlyData(GroupByDate(<<>>, rawData, opts, ctx))

\* Mutant of the map callback: a row whose amounts are both zero is dropped,
\* as Tax-Type mode drops it
RecordOfSkippingZero(dateValue, date, taxExemptAmount, taxableAmount) ==
    IF IsSummaryRow(dateValue) THEN <<>>
    ELSE IF ~date.ok THEN <<>>
    ELSE IF taxExemptAmount + taxableAmount = 0 THEN <<>>
    ELSE << MonthlyData(date.y, date.m, taxExemptAmount, taxableAmount) >>

\* The callback of rawData.map in parseMonthlyData from the parsed values
\* on: <<>> for null, else a one-element sequence (the filter after the map
\* drops the nulls; no amount is NaN, parseAmount of the values of this
\* model never is)
RecordOf(dateValue, date, taxExemptAmount, taxableAmount) ==
    IF IsSummaryRow(dateValue) THEN <<>>
    ELSE IF ~date.ok THEN <<>>
    ELSE << MonthlyData(date.y, date.m, taxExemptAmount, taxableAmount) >>

\* Mutant of the callback: a row whose amount text parseFloat does not read
\* is dropped (parseAmount without its "|| 0", the filter then removing NaN)
TraditionalRowDroppingNaN(row, opts, ctx) ==
    IF \E col \in {Or(opts.taxExemptColumn, MyeonSeGeumAek),
                   Or(opts.taxableColumn, GwaSeGeumAek)} :
          /\ Get(row, col).t = "str"
          /\ ParseFloat(Cleaned(Get(row, col).s)).nan
    THEN <<>>
    ELSE RecordOf(Get(row, Or(opts.dateColumn, NalJja)),
                  ParseDate(Get(row, Or(opts.dateColumn, NalJja)), ctx),
                  ParseAmount(Get(row, Or(opts.taxExemptColumn, MyeonSeGeumAek))),
                  ParseAmount(Get(row, Or(opts.taxableColumn, GwaSeGeumAek))))

\* The callback of rawData.map in parseMonthlyData
TraditionalRow(row, opts, ctx) ==
    RecordOf(Get(row, Or(opts.dateColumn, NalJja)),
             ParseDate(Get(row, Or(opts.dateColumn, NalJja)), ctx),
             ParseAmount(Get(row, Or(opts.taxExemptColumn, MyeonSeGeumAek))),
             ParseAmount(Get(row, Or(opts.taxableColumn, GwaSeGeumAek))))

RECURSIVE MapTraditional(_, _, _)
MapTraditional(rawData, opts, ctx) ==
    IF rawData = <<>> THEN <<>>
    ELSE TraditionalRow(Head(rawData), opts, ctx)
            \o MapTraditional(Tail(rawData), opts, ctx)

\* parseMonthlyData(rawData, options)
ParseMonthlyData(rawData, opts, ctx) ==
    IF opts.useTaxTypeClassification
    THEN ParseMonthlyDataWithTaxType(rawData, opts, ctx)
    ELSE MapTraditional(rawData, opts, ctx)

----------------------------------------------------------------------------
(* The day-only date context *)

\* Whether a prefix of s matches pat
RECURSIVE MatchPrefix(_, _)
MatchPrefix(pat, s) ==
    IF pat = <<>> THEN TRUE
    ELSE LET e == Head(pat) IN
         CASE e.k = "d" ->
                LET n == DigitPrefix(s) IN
                /\ n >= e.lo
                /\ n <= e.hi
                /\ MatchPrefix(Tail(pat), SubSeq(s, n + 1, Len(s)))
           [] e.k = "c" ->
                /\ s # <<>>
                /\ Head(s) \in e.cs
                /\ MatchPrefix(Tail(pat), Tail(s))
           [] e.k = "w" ->
                LET n == SpacePrefix(s) IN
                /\ n >= e.lo
                /\ MatchPrefix(Tail(pat), SubSeq(s, n + 1, Len(s)))

\* cellValue.match(/(\d{4})년\s*(\d{1,2})월/): the captured groups of the
\* leftmost match, <<>> when there is none
ContextPattern == <<D(4, 4), C({"nyeon"}), W(0), D(1, 2), C({"wol"})>>

ContextMatch(s) ==
    LET starts == {i \in 1..Len(s) :
                      MatchPrefix(ContextPattern, SubSeq(s, i, Len(s)))}
    IN IF starts = {} THEN <<>>
       ELSE LET i == CHOOSE k \in starts : \A j \in starts : k <= j
            IN Groups(SubSeq(s, i, Len(s)))

TitleRows == 5

\* (row[0] || '').toString().trim()
FirstCellText(row) ==
    IF row # <<>> /\ Truthy(row[1]) THEN Trim(ValueToString(row[1])) ELSE <<>>

\* Whether row rowIndex (counted from 1) sets the context
SetsContext(data, i) ==
    LET g == ContextMatch(FirstCellText(data[i])) IN
    g # <<>> /\ YmOk(g[1], g[2])

\* The context the loop of extractSikbomDateContext sets: that of the first
\* of the first five rows whose first cell matches with a year and a month
\* in range, none without such a row
ContextOfRow(g) == [ok |-> TRUE, y |-> g[1], m |-> g[2], d |-> 0]

FirstContext(data, hits) ==
    IF hits = {} THEN NoDate
    ELSE ContextOfRow(ContextMatch(FirstCellText(
            data[CHOOSE k \in hits : \A j \in hits : k <= j])))

\* Mutant of the search for the title: every row is looked at, not only
\* the first five
FoundContextInAnyRow(data) ==
    FirstContext(data, {i \in 1..Len(data) : SetsContext(data, i)})

FoundContext(data) ==
    FirstContext(data, {i \in 1..Min(Len(data), TitleRows) : SetsContext(data, i)})

\* Mutant of extractSikbomDateContext: without the reset, the context
\* stays when the file has none
ExtractWithoutReset(before, data) ==
    IF FoundContext(data).ok THEN FoundContext(data) ELSE before

\* The value of this.sikbomDateContext after extractSikbomDateContext(data):
\* reset to null, then set by the loop
ExtractSikbomDateContext(before, data) == FoundContext(data)

----------------------------------------------------------------------------
(* Direct calls of parseMonthlyData and parseMonthlyDataWithTaxType on a    *)
(* freshly constructed service (as the tests of the repository make them). *)

MaxRows == 2

Pad2(k) == IF k < 10 THEN <<"0">> \o NatDigits(k) ELSE NatDigits(k)
IsoString(y, m, d) == NatDigits(y) \o <<"-">> \o Pad2(m) \o <<"-">> \o Pad2(d)
KoreanString(y, m, d) ==
    NatDigits(y) \o <<"nyeon", " ">> \o NatDigits(m) \o <<"wol", " ">>
        \o NatDigits(d) \o <<"il">>
UsString(y, m, d) ==
    NatDigits(m) \o <<"/">> \o NatDigits(d) \o <<"/">> \o NatDigits(y)

MyeonSe == <<"myeon", "se">>
GwaSe == <<"gwa", "se">>
TenPercent == <<"1", "0", "%">>
Unknown == <<"al", "su", "eop", "eum">>
Garbage == <<"x", "y">>
SoGye == <<"so", "gye">>
Total == <<"T", "o", "t", "a", "l">>
DayOnly(d) == NatDigits(d) \o <<"il">>

\* A row object with the five columns the options below name
Row(date, type, a, b) ==
    << [key |-> NalJja, val |-> date],
       [key |-> GwaSeYuHyeong, val |-> type],
       [key |-> GeumAek, val |-> a],
       [key |-> MyeonSeGeumAek, val |-> a],
       [key |-> GwaSeGeumAek, val |-> b] >>

DateCells ==
    { Str(IsoString(2024, 1, 15)), Str(KoreanString(2024, 2, 3)),
      Str(<<"2", "0", "2", "3", ".", "1", "2">>), Str(DayOnly(5)),
      Str(SoGye), Str(Total), Str(<<"S", "u", "m", " ">> \o UsString(2024, 1, 15)),
      Str(Garbage), Str(<<>>), Null }

Rows ==
    { Row(d, Str(MyeonSe), Num(100), Num(30)) : d \in DateCells }
    \cup
    { Row(Str(IsoString(2024, 1, 15)), ta[1], ta[2], ta[3]) : ta \in
        { <<Str(GwaSe), Num(100), Num(30)>>,
          <<Str(<<"f", "r", "e", "e">>), Num(100), Num(30)>>,
          <<Str(TenPercent), Num(100), Num(30)>>,
          <<Str(Unknown), Num(100), Num(30)>>,
          <<Null, Num(100), Num(30)>>,
          <<Str(MyeonSe), Num(0), Null>>,
          <<Str(MyeonSe), Str(<<"won", "1", ",", "2", "0", "0">>), Num(30)>>,
          <<Str(MyeonSe), Str(Garbage), Num(30)>> } }

RowLists == UNION { [1..n -> Rows] : n \in 0..MaxRows }

BaseOptions ==
    [dateColumn |-> NalJja, taxExemptColumn |-> <<>>, taxableColumn |-> <<>>,
     sheetName |-> <<>>, headerRow |-> -1,
     useTaxTypeClassification |-> FALSE, taxTypeColumn |-> <<>>,
     amountColumn |-> <<>>, hasTaxExemptValues |-> FALSE,
     taxExemptValues |-> <<>>, hasTaxableValues |-> FALSE,
     taxableValues |-> <<>>, useMultiColumnSum |-> FALSE,
     amountColumns |-> <<>>]

TraditionalOptions ==
    [BaseOptions EXCEPT !.taxExemptColumn = MyeonSeGeumAek,
                        !.taxableColumn = GwaSeGeumAek]

\* Tax-Type mode with the default keyword lists
DefaultTaxTypeOptions ==
    [BaseOptions EXCEPT !.useTaxTypeClassification = TRUE,
                        !.taxTypeColumn = GwaSeYuHyeong,
                        !.amountColumn = GeumAek]

\* Tax-Type mode with the keyword lists of the repository's tests
TaxTypeOptions ==
    [DefaultTaxTypeOptions EXCEPT
        !.hasTaxExemptValues = TRUE,
        !.taxExemptValues = << <<"F", "R", "E", "E">>, MyeonSe >>,
        !.hasTaxableValues = TRUE,
        !.taxableValues = << <<"T", "A", "X">>, GwaSe >>]

MultiColumnOptions ==
    [TaxTypeOptions EXCEPT !.useMultiColumnSum = TRUE,
                           !.amountColumns = <<GeumAek, GwaSeGeumAek>>]

NoCall == [op |-> "none", args |-> <<>>, ret |-> <<>>]
NoResponse == [state |-> "idle", success |-> FALSE, data |-> <<>>, error |-> ""]

Idle ==
    /\ sikbomDateContext = NoDate
    /\ options = BaseOptions
    /\ batch = <<>>
    /\ results = <<>>
    /\ response = NoResponse
    /\ call = NoCall

CallParseMonthlyData(rawData, opts) ==
    /\ call.op = "none"
    /\ call' = [op |-> "parseMonthlyData", args |-> <<rawData, opts>>,
                ret |-> ParseMonthlyData(rawData, opts, sikbomDateContext)]
    /\ UNCHANGED <<sikbomDateContext, options, batch, results, response>>

CallParseMonthlyDataWithTaxType(rawData, opts) ==
    /\ call.op = "none"
    /\ call' = [op |-> "parseMonthlyDataWithTaxType", args |-> <<rawData, opts>>,
                ret |-> ParseMonthlyDataWithTaxType(rawData, opts,
                                                    sikbomDateContext)]
    /\ UNCHANGED <<sikbomDateContext, options, batch, results, response>>

NextParse ==
    \/ \E rawData \in RowLists, opts \in {TraditionalOptions, TaxTypeOptions} :
          CallParseMonthlyData(rawData, opts)
    \/ \E rawData \in RowLists,
          opts \in {TaxTypeOptions, DefaultTaxTypeOptions, MultiColumnOptions} :
          CallParseMonthlyDataWithTaxType(rawData, opts)

SpecParse == Idle /\ [][NextParse]_vars

----------------------------------------------------------------------------
(* Claims about row extraction *)

RECURSIVE SumSeq(_)
SumSeq(s) == IF s = <<>> THEN 0 ELSE Head(s) + SumSeq(Tail(s))

DateCellOf(row, opts) == Get(row, Or(opts.dateColumn, NalJja))
TaxTypeOf(row, opts) ==
    LET cell == Get(row, Or(opts.taxTypeColumn, GwaSeYuHyeong)) IN
    IF Truthy(cell) THEN Trim(ValueToString(cell)) ELSE <<>>

\* The text contains one of the keywords, whatever the case
ContainsKeyword(text, keywords) ==
    \E i \in 1..Len(keywords) :
        Includes(ToLowerCase(text), ToLowerCase(keywords[i]))

ExemptKeywords(opts) ==
    IF opts.hasTaxExemptValues THEN opts.taxExemptValues
    ELSE defaultTaxExemptValues
TaxableKeywords(opts) ==
    IF opts.hasTaxableValues THEN opts.taxableValues ELSE defaultTaxableValues

\* A row with a parsable non-summary date
HasDate(row, opts, ctx) ==
    /\ ~IsSummaryRow(DateCellOf(row, opts))
    /\ ParseDate(DateCellOf(row, opts), ctx).ok

InMonth(row, opts, ctx, y, m) ==
    /\ HasDate(row, opts, ctx)
    /\ ParseDate(DateCellOf(row, opts), ctx).y = y
    /\ ParseDate(DateCellOf(row, opts), ctx).m = m

TaxTypeCall == call.op = "parseMonthlyDataWithTaxType"
TraditionalCall ==
    call.op = "parseMonthlyData" /\ ~call.args[2].useTaxTypeClassification

\* The sum of the amounts of the rows of month (y, m) that have a non-zero
\* amount and pass Test
MonthSum(rows, opts, ctx, y, m, Test(_)) ==
    LET sel == SelectSeq(rows, LAMBDA r :
                    /\ InMonth(r, opts, ctx, y, m)
                    /\ RowAmount(r, opts) # 0
                    /\ Test(r))
    IN SumSeq([i \in 1..Len(sel) |-> RowAmount(sel[i], opts)])

\* C1 (as claimed): in Tax-Type mode, for every month of a row with a
\* parsable non-summary date and a non-zero amount, the month's tax-exempt
\* total is the sum of the amounts of its rows whose tax type contains a
\* tax-exempt keyword, and its taxable total is the sum of the amounts of
\* its rows whose tax type contains a taxable keyword or matches neither
\* list.
C1_KeywordDecidesBucket ==
    TaxTypeCall =>
        LET rows == call.args[1]
            opts == call.args[2]
            IsExempt(r) == ContainsKeyword(TaxTypeOf(r, opts), ExemptKeywords(opts))
            IsTaxable(r) ==
                \/ ContainsKeyword(TaxTypeOf(r, opts), TaxableKeywords(opts))
                \/ ~ContainsKeyword(TaxTypeOf(r, opts), ExemptKeywords(opts))
        IN \A i \in 1..Len(rows) :
              (HasDate(rows[i], opts, NoDate) /\ RowAmount(rows[i], opts) # 0) =>
                 LET date == ParseDate(DateCellOf(rows[i], opts), NoDate) IN
                 \E k \in 1..Len(call.ret) :
                    /\ call.ret[k].year = date.y
                    /\ call.ret[k].month = date.m
                    /\ call.ret[k].taxExemptAmount =
                          MonthSum(rows, opts, NoDate, date.y, date.m, IsExempt)
                    /\ call.ret[k].taxableAmount =
                          MonthSum(rows, opts, NoDate, date.y, date.m, IsTaxable)

UnparsableText(cell) ==
    /\ cell.t = "str"
    /\ LET c == Cleaned(cell.s)
           b == IF c # <<>> /\ Head(c) \in {"-", "+"} THEN Tail(c) ELSE c
       IN c # <<>> /\ (b = <<>> \/ Head(b) \notin Digit)

\* A dated row with unparsable text in one of the two amount cells
DatedUnparsable(row, opts) ==
    /\ HasDate(row, opts, NoDate)
    /\ \/ UnparsableText(Get(row, opts.taxExemptColumn))
       \/ UnparsableText(Get(row, opts.taxableColumn))

RECURSIVE FirstAppearances(_, _)
FirstAppearances(seen, keys) ==
    IF keys = <<>> THEN seen
    ELSE IF \E i \in 1..Len(seen) : seen[i] = Head(keys)
         THEN FirstAppearances(seen, Tail(keys))
         ELSE FirstAppearances(Append(seen, Head(keys)), Tail(keys))

\* The rows that count in Tax-Type mode: a parsable non-summary date and a
\* non-zero amount
CountedRows(rows, opts) ==
    SelectSeq(rows, LAMBDA r : HasDate(r, opts, NoDate) /\ RowAmount(r, opts) # 0)

MonthsOf(rows, opts) ==
    FirstAppearances(<<>>,
        [i \in 1..Len(rows) |->
            << ParseDate(DateCellOf(rows[i], opts), NoDate).y,
               ParseDate(DateCellOf(rows[i], opts), NoDate).m >>])

\* C12: parseMonthlyDataWithTaxType returns exactly one record per distinct
\* (year, month) among the rows with a parsable non-summary date and a
\* non-zero amount, in order of first appearance; rows of zero or
\* unparsable amount are skipped, so a month whose rows all have amount 0
\* yields no record.
C12_OneRecordPerMonth ==
    TaxTypeCall =>
        LET months == MonthsOf(CountedRows(call.args[1], call.args[2]), call.args[2])
        IN /\ Len(call.ret) = Len(months)
           /\ \A k \in 1..Len(months) :
                /\ call.ret[k].year = months[k][1]
                /\ call.ret[k].month = months[k][2]

\* C12 witness: a dated row of amount 0 followed by a row of another month
\* with a non-zero amount; the one record is the second row's month
C12_Witness ==
    /\ TaxTypeCall
    /\ Len(call.args[1]) = 2
    /\ HasDate(call.args[1][1], call.args[2], NoDate)
    /\ RowAmount(call.args[1][1], call.args[2]) = 0
    /\ HasDate(call.args[1][2], call.args[2], NoDate)
    /\ RowAmount(call.args[1][2], call.args[2]) # 0
    /\ ParseDate(DateCellOf(call.args[1][1], call.args[2]), NoDate).m
          # ParseDate(DateCellOf(call.args[1][2], call.args[2]), NoDate).m
    /\ Len(call.ret) = 1
    /\ call.ret[1].month
          = ParseDate(DateCellOf(call.args[1][2], call.args[2]), NoDate).m

\* The date cell holds a summary token, whatever the case
SummaryTokens ==
    { <<"hap", "gye">>, <<"chong", "gye">>, <<"gye">>, <<"so", "gye">>,
      <<"chong", "hap">>, <<"t", "o", "t", "a", "l">>, <<"s", "u", "m">>,
      <<"s", "u", "b", "t", "o", "t", "a", "l">> }

HasSummaryToken(cell) ==
    /\ cell.t # "null"
    /\ \E tok \in SummaryTokens : Includes(ToLowerCase(ValueToString(cell)), tok)

\* A row the extraction skips: its date cell is empty, holds a summary
\* token, or does not parse
SkippedRow(row, opts, ctx) ==
    \/ DateCellOf(row, opts).t = "null"
    \/ DateCellOf(row, opts) = Str(<<>>)
    \/ HasSummaryToken(DateCellOf(row, opts))
    \/ ~ParseDate(DateCellOf(row, opts), ctx).ok

\* C10: in both modes the rows whose date cell is empty, unparsable or a
\* summary line contribute nothing (the result is the result for the other
\* rows alone, which are all processed), a summary line also when the rest
\* of its text would parse as a date.
C10_BadDateRowsSkipped ==
    call.op \in {"parseMonthlyData", "parseMonthlyDataWithTaxType"} =>
        LET rows == call.args[1]
            opts == call.args[2]
            others == SelectSeq(rows, LAMBDA r : ~SkippedRow(r, opts, NoDate))
        IN call.ret =
             IF call.op = "parseMonthlyData"
             THEN ParseMonthlyData(others, opts, NoDate)
             ELSE ParseMonthlyDataWithTaxType(others, opts, NoDate)

\* C10 witness: a summary line whose text would parse as a date, followed by
\* a dated row; one record came out
C10_Witness ==
    /\ call.op \in {"parseMonthlyData", "parseMonthlyDataWithTaxType"}
    /\ Len(call.args[1]) = 2
    /\ DateCellOf(call.args[1][1], call.args[2])
          = Str(<<"S", "u", "m", " ">> \o UsString(2024, 1, 15))
    /\ ~SkippedRow(call.args[1][2], call.args[2], NoDate)
    /\ Len(call.ret) = 1

-----------------------------------------------------------------------------
(* CalculationService.calculateTotals.  groupByYearMonth keys the groups   *)
(* by the text `${year}-${month}`; calculateTotals reads year and month    *)
(* back from the key with split('-').map(Number).  An object of            *)
(* non-index keys enumerates in insertion order, so the groups are a       *)
(* sequence of [key, items] in order of first appearance.                  *)

\* `${item.year}-${item.month}`
YearMonthKey(item) ==
    NumberToString(item.year) \o <<"-">> \o NumberToString(item.month)

\* groups[key].push(item), after groups[key] = [] for a new key
PushItem(groups, key, item) ==
    IF \E i \in 1..Len(groups) : groups[i].key = key
    THEN [i \in 1..Len(groups) |->
            IF groups[i].key = key
            THEN [groups[i] EXCEPT !.items = Append(@, item)]
            ELSE groups[i]]
    ELSE Append(groups, [key |-> key, items |-> <<item>>])

RECURSIVE GroupByYearMonth(_, _)
GroupByYearMonth(groups, data) ==
    IF data = <<>> THEN groups
    ELSE GroupByYearMonth(PushItem(groups, YearMonthKey(Head(data)), Head(data)),
                          Tail(data))

\* yearMonth.split('-')
RECURSIVE SplitDash(_, _)
SplitDash(s, piece) ==
    IF s = <<>> THEN <<piece>>
    ELSE IF Head(s) = "-" THEN <<piece>> \o SplitDash(Tail(s), <<>>)
    ELSE SplitDash(Tail(s), Append(piece, Head(s)))

\* Number(piece) of a piece of digits; Number('') is 0
NumberOf(piece) == DigitsValue(piece)

\* items.reduce((sum, item) => sum + item.taxExemptAmount, 0)
RECURSIVE ReduceTaxExempt(_)
ReduceTaxExempt(items) ==
    IF items = <<>> THEN 0
    ELSE Head(items).taxExemptAmount + ReduceTaxExempt(Tail(items))

\* items.reduce((sum, item) => sum + item.taxableAmount, 0)
RECURSIVE ReduceTaxable(_)
ReduceTaxable(items) ==
    IF items = <<>> THEN 0
    ELSE Head(items).taxableAmount + ReduceTaxable(Tail(items))

\* The object pushed to monthlyTotals
MonthlyTotal(parts, monthlyTaxExempt, monthlyTaxable) ==
    [year |-> NumberOf(parts[1]), month |-> NumberOf(parts[2]),
     taxExempt |-> monthlyTaxExempt, taxable |-> monthlyTaxable,
     total |-> monthlyTaxExempt + monthlyTaxable]

\* Object.entries(groupedData).forEach(...): the entries pushed, in order
MonthlyTotalsOf(groups) ==
    [i \in 1..Len(groups) |->
        MonthlyTotal(SplitDash(groups[i].key, <<>>),
                     ReduceTaxExempt(groups[i].items),
                     ReduceTaxable(groups[i].items))]

\* Mutant of the comparator: the months alone decide
CompareByMonth(a, b) == a.month - b.month

\* The comparator of monthlyTotals.sort
CompareTotals(a, b) ==
    IF a.year # b.year THEN a.year - b.year ELSE a.month - b.month

\* Array.prototype.sort is stable: e goes after the last element it is not
\* smaller than
RECURSIVE InsertTotal(_, _)
InsertTotal(sorted, e) ==
    IF sorted = <<>> THEN <<e>>
    ELSE IF CompareTotals(e, sorted[Len(sorted)]) < 0
         THEN Append(InsertTotal(SubSeq(sorted, 1, Len(sorted) - 1), e),
                     sorted[Len(sorted)])
         ELSE Append(sorted, e)

RECURSIVE SortTotals(_, _)
SortTotals(sorted, rest) ==
    IF rest = <<>> THEN sorted
    ELSE SortTotals(InsertTotal(sorted, Head(rest)), Tail(rest))

\* yearlyTaxExempt += monthlyTaxExempt over the entries
RECURSIVE YearlyTaxExempt(_)
YearlyTaxExempt(totals) ==
    IF totals = <<>> THEN 0
    ELSE Head(totals).taxExempt + YearlyTaxExempt(Tail(totals))

\* yearlyTaxable += monthlyTaxable over the entries
RECURSIVE YearlyTaxable(_)
YearlyTaxable(totals) ==
    IF totals = <<>> THEN 0
    ELSE Head(totals).taxable + YearlyTaxable(Tail(totals))

\* The object calculateTotals returns, from the entries pushed
CalculationResult(mallName, pushed) ==
    [mallName |-> mallName,
     monthlyTotals |-> SortTotals(<<>>, pushed),
     yearlyTotal |-> [taxExempt |-> YearlyTaxExempt(pushed),
                      taxable |-> YearlyTaxable(pushed),
                      total |-> YearlyTaxExempt(pushed) + YearlyTaxable(pushed)]]

\* calculateTotals(mallData)
CalculateTotals(mallData) ==
    CalculationResult(mallData.mallName,
                      MonthlyTotalsOf(GroupByYearMonth(<<>>, mallData.data)))

-----------------------------------------------------------------------------
(* calculateTotals called once on a list of records.  The records are      *)
(* those the parsers produce: a year, a month of 1..12, two amounts.       *)

MaxRecords == 3

Years == {2023, 2024}
Months == {2, 11}
Amounts == {<<100, 0>>, <<0, 250>>, <<30, 50>>}

Records ==
    {MonthlyData(y, m, a[1], a[2]) : y \in Years, m \in Months, a \in Amounts}

RECURSIVE RecordLists(_)
RecordLists(n) ==
    IF n = 0 THEN {<<>>}
    ELSE RecordLists(n - 1)
            \cup {Append(l, r) : l \in {x \in RecordLists(n - 1) : Len(x) = n - 1},
                                 r \in Records}

CallCalculateTotals(data) ==
    /\ call.op = "none"
    /\ call' = [op |-> "calculateTotals", args |-> <<data>>,
                ret |-> CalculateTotals([mallName |-> "mall", filePath |-> "f",
                                         data |-> data])]
    /\ UNCHANGED <<sikbomDateContext, options, batch, results, response>>

NextTotals == \E data \in RecordLists(MaxRecords) : CallCalculateTotals(data)

SpecTotals == Idle /\ [][NextTotals]_vars

-----------------------------------------------------------------------------
(* Claims about calculateTotals *)

YearMonths(data) == {<<data[i].year, data[i].month>> : i \in 1..Len(data)}

OfMonth(data, ym) ==
    SelectSeq(data, LAMBDA r : r.year = ym[1] /\ r.month = ym[2])

TotalsCall == call.op = "calculateTotals"

\* C3: calculateTotals returns one entry per distinct (year, month) of the
\* input, each with the sums of its group's records and total = taxExempt +
\* taxable, the entries strictly ascending by year then month, and the yearly
\* total the component-wise sum over the entries (zeros and an empty list
\* for empty input).
C3_TotalsGroupedSummedSorted ==
    TotalsCall =>
        LET data == call.args[1]
            mt == call.ret.monthlyTotals
            yt == call.ret.yearlyTotal
        IN  /\ Len(mt) = Cardinality(YearMonths(data))
            /\ {<<mt[i].year, mt[i].month>> : i \in 1..Len(mt)} = YearMonths(data)
            /\ \A i \in 1..Len(mt) :
                  /\ mt[i].taxExempt =
                        SumField(OfMonth(data, <<mt[i].year, mt[i].month>>),
                                 "taxExemptAmount")
                  /\ mt[i].taxable =
                        SumField(OfMonth(data, <<mt[i].year, mt[i].month>>),
                                 "taxableAmount")
                  /\ mt[i].total = mt[i].taxExempt + mt[i].taxable
            /\ \A i \in 1..(Len(mt) - 1) :
                  \/ mt[i].year < mt[i + 1].year
                  \/ mt[i].year = mt[i + 1].year /\ mt[i].month < mt[i + 1].month
            /\ yt.taxExempt = SumField(mt, "taxExempt")
            /\ yt.taxable = SumField(mt, "taxable")
            /\ yt.total = SumField(mt, "total")
            /\ data = <<>> =>
                  mt = <<>> /\ yt = [taxExempt |-> 0, taxable |-> 0, total |-> 0]

\* Three records out of order, two of them of one month: the groups are
\* merged and the entries come back sorted
C3_Witness ==
    /\ TotalsCall
    /\ Len(call.args[1]) = 3
    /\ call.args[1][1].year = 2024 /\ call.args[1][1].month = 2
    /\ call.args[1][2].year = 2023 /\ call.args[1][2].month = 11
    /\ call.args[1][3].year = 2024 /\ call.args[1][3].month = 2
    /\ Len(call.ret.monthlyTotals) = 2
    /\ call.ret.monthlyTotals[1].year = 2023
    /\ call.ret.monthlyTotals[2].taxExempt = 200

-----------------------------------------------------------------------------
(* Grids.  sheet_to_json(worksheet, {header: 1}) yields one array per      *)
(* sheet row; an array ends at the row's last cell and has a hole where a  *)
(* cell is missing.  A grid is a sequence of rows, a row a sequence of     *)
(* cells with Null for a hole.  The code counts rows and columns from 0,   *)
(* sequences count from 1: row r of the code is data[r + 1].  Every        *)
(* callback of filter, map, some and forEach skips holes, and every one    *)
(* in this file treats a hole as it treats null.                           *)

\* The Hangul syllables of this model, the range of [가-힣]
Hangul ==
    {"hap", "gye", "chong", "so", "myeon", "gwa", "se", "nal", "jja", "geum",
     "aek", "nyeon", "wol", "il", "ja", "sang", "pum", "je", "ju", "mun",
     "beon", "ho", "bae", "song", "bi", "gu", "bun", "ryu", "mae", "chul",
     "su", "ik", "yu", "hyeong", "yeong", "yul", "bu", "ga", "jeong", "san",
     "ku", "pon", "hyeon", "jeung", "sin", "yong", "ka", "deu", "ryang",
     "geon", "gyeol", "wan", "ryo", "byeol", "hwak", "dae", "dan", "me", "mo",
     "gi", "gan", "al", "eop", "eum", "weon"}

\* row[c], c counted from 0
Cell(row, c) == IF c >= 0 /\ c < Len(row) THEN row[c + 1] ELSE Null

\* data[r] || [], r counted from 0
RowAt(data, r) == IF r >= 0 /\ r < Len(data) THEN data[r + 1] ELSE <<>>

\* (cell || '').toString().trim()
CellText(cell) == IF Truthy(cell) THEN Trim(ValueToString(cell)) ELSE <<>>

\* cell != null && cell.toString().trim() !== ''
NonBlank(cell) == cell.t # "null" /\ Trim(ValueToString(cell)) # <<>>

\* cell && cell.toString().trim() !== ''
TruthyNonBlank(cell) == Truthy(cell) /\ Trim(ValueToString(cell)) # <<>>

\* The number of elements of s that satisfy Test
Count(s, Test(_)) == Len(SelectSeq(s, Test))

\* Whether s is the digits and nothing else
AllDigits(s) == s # <<>> /\ DigitPrefix(s) = Len(s)

\* ExponentPart, optional
ExponentOk(r) ==
    \/ r = <<>>
    \/ /\ Head(r) \in {"e", "E"}
       /\ AllDigits(IF Len(r) > 1 /\ r[2] \in {"+", "-"}
                    THEN SubSeq(r, 3, Len(r)) ELSE Tail(r))

\* StrUnsignedDecimalLiteral without Infinity: digits with an optional
\* fraction, or a fraction alone, then an optional exponent
UnsignedDecimal(s, n) ==
    IF n = Len(s) THEN n > 0
    ELSE IF s[n + 1] = "."
         THEN /\ n + DigitPrefix(SubSeq(s, n + 2, Len(s))) > 0
              /\ ExponentOk(SubSeq(s, n + 2 + DigitPrefix(SubSeq(s, n + 2, Len(s))),
                                   Len(s)))
         ELSE n > 0 /\ ExponentOk(SubSeq(s, n + 1, Len(s)))

InfinityLiteral == <<"I", "n", "f", "i", "n", "i", "t", "y">>

\* 0x, 0o and 0b literals
RadixLiteral(s) ==
    /\ Len(s) > 2
    /\ s[1] = "0"
    /\ \/ /\ s[2] \in {"x", "X"}
          /\ \A i \in 3..Len(s) :
                s[i] \in Digit \cup {"a", "b", "c", "d", "e", "f",
                                     "A", "B", "C", "D", "E", "F"}
       \/ /\ s[2] \in {"o", "O"}
          /\ \A i \in 3..Len(s) : s[i] \in {"0", "1", "2", "3", "4", "5", "6", "7"}
       \/ /\ s[2] \in {"b", "B"}
          /\ \A i \in 3..Len(s) : s[i] \in {"0", "1"}

\* A StringNumericLiteral after the white space is trimmed and the sign
\* taken off
Unsigned(s) ==
    s = InfinityLiteral \/ (s # <<>> /\ UnsignedDecimal(s, DigitPrefix(s)))

\* !isNaN(Number(str)) of a trimmed string
TrimmedIsNumber(s) ==
    \/ s = <<>>
    \/ RadixLiteral(s)
    \/ Unsigned(IF Head(s) \in {"+", "-"} THEN Tail(s) ELSE s)

\* !isNaN(Number(v)) of a value that is not null
IsNumber(v) == v.t = "num" \/ TrimmedIsNumber(Trim(v.s))

-----------------------------------------------------------------------------
(* detectHeaderRow *)

\* Common header keywords in Korean and English
headerKeywords ==
    << <<"nal", "jja">>, <<"il", "ja">>, <<"d", "a", "t", "e">>,
       <<"D", "a", "t", "e">>, <<"D", "A", "T", "E">>,
       <<"geum", "aek">>, <<"myeon", "se">>, <<"gwa", "se">>,
       <<"a", "m", "o", "u", "n", "t">>, <<"A", "m", "o", "u", "n", "t">>,
       <<"A", "M", "O", "U", "N", "T">>,
       <<"chong", "aek">>, <<"hap", "gye">>, <<"t", "o", "t", "a", "l">>,
       <<"T", "o", "t", "a", "l">>, <<"T", "O", "T", "A", "L">>,
       <<"sang", "pum">>, <<"je", "pum">>,
       <<"p", "r", "o", "d", "u", "c", "t">>,
       <<"P", "r", "o", "d", "u", "c", "t">>,
       <<"P", "R", "O", "D", "U", "C", "T">>,
       <<"ju", "mun">>, <<"beon", "ho">>, <<"o", "r", "d", "e", "r">>,
       <<"O", "r", "d", "e", "r">>, <<"O", "R", "D", "E", "R">>,
       <<"bae", "song">>, <<"bae", "song", "bi">>,
       <<"s", "h", "i", "p", "p", "i", "n", "g">>,
       <<"S", "h", "i", "p", "p", "i", "n", "g">>,
       <<"S", "H", "I", "P", "P", "I", "N", "G">>,
       <<"gu", "bun">>, <<"bun", "ryu">>, <<"t", "y", "p", "e">>,
       <<"T", "y", "p", "e">>, <<"T", "Y", "P", "E">>,
       <<"mae", "chul">>, <<"su", "ik">>, <<"s", "a", "l", "e", "s">>,
       <<"S", "a", "l", "e", "s">>, <<"S", "A", "L", "E", "S">> >>

\* keyword.toLowerCase() of each keyword
loweredHeaderKeywords ==
    [i \in 1..Len(headerKeywords) |-> ToLowerCase(headerKeywords[i])]

\* headerKeywords.some(keyword => cellStr.includes(keyword.toLowerCase()))
IncludesHeaderKeyword(cellStr) ==
    \E i \in 1..Len(loweredHeaderKeywords) :
        Includes(cellStr, loweredHeaderKeywords[i])

\* The test of a cell for header keywords, cellStr =
\* cell.toString().toLowerCase()
HasHeaderKeyword(cell) == IncludesHeaderKeyword(ToLowerCase(ValueToString(cell)))

\* isNaN(Number(str)) || str.match(/[가-힣a-zA-Z]/), str = cell.toString()
IsTextCell(cell) ==
    \/ ~IsNumber(Str(ValueToString(cell)))
    \/ \E i \in 1..Len(ValueToString(cell)) :
          ValueToString(cell)[i] \in Hangul \cup Lower \cup Upper

\* The characters of /[!@#$%^&*()+=\[\]{};':"\\|,.<>\/?]/
UnusualPunctuation ==
    {"!", "@", "#", "$", "%", "^", "&", "*", "(", ")", "+", "=", "[", "]",
     "{", "}", ";", "'", ":", "dq", "\\", "|", ",", ".", "<", ">", "/", "?"}

HasPunctuation(cell) ==
    \E i \in 1..Len(ValueToString(cell)) :
        ValueToString(cell)[i] \in UnusualPunctuation

\* cell != null && !isNaN(Number(cell)) && cell.toString().trim() !== ''
IsNumericCell(cell) == cell.t # "null" /\ IsNumber(cell) /\ NonBlank(cell)

NotNull(cell) == cell.t # "null"

\* textRatio > 0.7 (10 * text > 7 * all is the same comparison: a quotient
\* of two small integers is never rounded across 0.7)
HighTextRatio(nonEmptyCells) ==
    10 * Count(nonEmptyCells, IsTextCell) > 7 * Len(nonEmptyCells)

\* nextRowRatio > 0.5; 0 / 0 is NaN, which is not
NumericRow(nextRow) ==
    /\ Count(nextRow, NotNull) > 0
    /\ 2 * Count(nextRow, IsNumericCell) > Count(nextRow, NotNull)

\* 4. text row followed by numeric row
PatternChange(data, rowIndex, nonEmptyCells) ==
    /\ rowIndex < Len(data) - 1
    /\ HighTextRatio(nonEmptyCells)
    /\ NumericRow(RowAt(data, rowIndex + 1))

\* 5. rowIndex > 0 and the previous row has no non-empty cell
PrecededByEmptyRow(data, rowIndex) ==
    rowIndex > 0 /\ Count(RowAt(data, rowIndex - 1), NonBlank) = 0

\* The score of a row with a non-empty cell
ScoreOf(data, rowIndex, row, nonEmptyCells) ==
      (IF 2 * Len(nonEmptyCells) > Len(row) THEN 20 ELSE 0)
    + 15 * Count(nonEmptyCells, HasHeaderKeyword)
    + (IF HighTextRatio(nonEmptyCells) THEN 25 ELSE 0)
    + (IF PatternChange(data, rowIndex, nonEmptyCells) THEN 30 ELSE 0)
    + (IF PrecededByEmptyRow(data, rowIndex) THEN 10 ELSE 0)
    + (IF Count(nonEmptyCells, HasPunctuation) = 0 THEN 5 ELSE 0)

\* The body of the loop over the first rows: 0 for a row that is skipped
RowScore(data, rowIndex) ==
    IF Count(RowAt(data, rowIndex), NonBlank) = 0 THEN 0
    ELSE ScoreOf(data, rowIndex, RowAt(data, rowIndex),
                 SelectSeq(RowAt(data, rowIndex), NonBlank))

maxRowsToCheckLimit == 10

\* if (score > 0) candidates.push({ row: rowIndex, score, reasons })
PushCandidate(candidates, rowIndex, score) ==
    IF score > 0 THEN Append(candidates, [row |-> rowIndex, score |-> score])
    ELSE candidates

\* candidates after the loop over rows 0..n-1: the rows with score > 0, in
\* row order
RECURSIVE Candidates(_, _)
Candidates(data, n) ==
    IF n = 0 THEN <<>>
    ELSE PushCandidate(Candidates(data, n - 1), n - 1, RowScore(data, n - 1))

\* Mutant of the sort: e goes before the candidates of its own score
RECURSIVE InsertBeforeEqual(_, _)
InsertBeforeEqual(sorted, e) ==
    IF sorted = <<>> THEN <<e>>
    ELSE IF sorted[Len(sorted)].score - e.score <= 0
         THEN Append(InsertBeforeEqual(SubSeq(sorted, 1, Len(sorted) - 1), e),
                     sorted[Len(sorted)])
         ELSE Append(sorted, e)

\* candidates.sort((a, b) => b.score - a.score), a stable sort: e goes
\* after the last candidate whose score is not less
RECURSIVE InsertCandidate(_, _)
InsertCandidate(sorted, e) ==
    IF sorted = <<>> THEN <<e>>
    ELSE IF sorted[Len(sorted)].score - e.score < 0
         THEN Append(InsertCandidate(SubSeq(sorted, 1, Len(sorted) - 1), e),
                     sorted[Len(sorted)])
         ELSE Append(sorted, e)

RECURSIVE SortCandidates(_, _)
SortCandidates(sorted, rest) ==
    IF rest = <<>> THEN sorted
    ELSE SortCandidates(InsertCandidate(sorted, Head(rest)), Tail(rest))

-----------------------------------------------------------------------------
(* detectMultiRowHeaders *)

JuMunGeumAek == <<"ju", "mun", "geum", "aek">>
JeongSan == <<"jeong", "san">>
KuPon == <<"ku", "pon">>
HyeonGeumYeongSuJeung == <<"hyeon", "geum", "yeong", "su", "jeung">>
SinYongKaDeu == <<"sin", "yong", "ka", "deu">>
GyeolJeGeumAek == <<"gyeol", "je", "geum", "aek">>
VAT == <<"V", "A", "T">>

subHeaderKeywords ==
    << GwaSeGeumAek, MyeonSeGeumAek, GeumAek, <<"su", "ryang">>,
       <<"geon", "su">>, <<"hap", "gye">>, GyeolJeGeumAek >>
strongHeaderKeywords == << GwaSeGeumAek, MyeonSeGeumAek, GyeolJeGeumAek >>
sikbomKeywords == << GwaSe, MyeonSe, VAT >>

\* keywords.some(keyword => text.includes(keyword))
IncludesAny(text, keywords) ==
    \E i \in 1..Len(keywords) : Includes(text, keywords[i])

\* What one column adds to multiRowIndicators (cases 2 to 6)
ColumnIndicators(primaryCell, nextCell) ==
      (IF primaryCell = <<>> /\ nextCell # <<>>
          /\ IncludesAny(nextCell, strongHeaderKeywords) THEN 3 ELSE 0)
    + (IF primaryCell # <<>> /\ nextCell # <<>>
          /\ IncludesAny(nextCell, subHeaderKeywords) THEN 1 ELSE 0)
    + (IF Includes(primaryCell, <<">">>) \/ Includes(nextCell, <<">">>)
       THEN 2 ELSE 0)
    + (IF primaryCell # <<>> /\ nextCell # <<>>
          /\ (Includes(primaryCell, JuMunGeumAek) \/ Includes(primaryCell, JeongSan))
          /\ IncludesAny(nextCell, sikbomKeywords) THEN 3 ELSE 0)
    + (IF nextCell # <<>> /\ IncludesAny(nextCell, sikbomKeywords) THEN 1 ELSE 0)

\* What one column adds to nextRowHeaderCount (cases 2, 5 and 6)
ColumnHeaderCount(primaryCell, nextCell) ==
      (IF primaryCell = <<>> /\ nextCell # <<>>
          /\ IncludesAny(nextCell, strongHeaderKeywords) THEN 1 ELSE 0)
    + (IF primaryCell # <<>> /\ nextCell # <<>>
          /\ (Includes(primaryCell, JuMunGeumAek) \/ Includes(primaryCell, JeongSan))
          /\ IncludesAny(nextCell, sikbomKeywords) THEN 1 ELSE 0)
    + (IF nextCell # <<>> /\ IncludesAny(nextCell, sikbomKeywords) THEN 1 ELSE 0)

\* What one column adds to mergedCellPatterns (case 1)
ColumnMerged(primaryCell, nextCell) ==
    IF primaryCell # <<>> /\ nextCell = <<>> /\ Len(primaryCell) > 2 THEN 1 ELSE 0

MaxColumnsChecked == 20

\* The three counters after the loop over the first totalCells columns
ColumnCounts(primaryRow, nextRow, totalCells) ==
    [i \in 1..totalCells |->
        [indicators |-> ColumnIndicators(CellText(Cell(primaryRow, i - 1)),
                                         CellText(Cell(nextRow, i - 1))),
         headers |-> ColumnHeaderCount(CellText(Cell(primaryRow, i - 1)),
                                       CellText(Cell(nextRow, i - 1))),
         merged |-> ColumnMerged(CellText(Cell(primaryRow, i - 1)),
                                 CellText(Cell(nextRow, i - 1)))]]

\* cellStr.includes('주문금액') || '쿠폰' || '정산' || '현금영수증' || '신용카드',
\* cellStr = cell ? cell.toString() : ''
IsSikbomMainHeader(cell) ==
    /\ Truthy(cell)
    /\ IncludesAny(ValueToString(cell),
                   <<JuMunGeumAek, KuPon, JeongSan, HyeonGeumYeongSuJeung,
                     SinYongKaDeu>>)

\* cellStr.includes('과세') || cellStr.includes('면세') || cellStr.includes('VAT')
IsSikbomSubHeader(cell) ==
    Truthy(cell) /\ IncludesAny(ValueToString(cell), sikbomKeywords)

\* sikbomStyleDetected
SikbomStyle(prevRow, primaryRow, hasPrevRow) ==
    /\ hasPrevRow
    /\ Count(prevRow, IsSikbomMainHeader) >= 2
    /\ Count(primaryRow, IsSikbomSubHeader) >= 4

\* isMultiRow, the quotients compared as integers (Math.max(totalCells, 1)
\* is the divisor)
IsMultiRow(multiRowIndicators, mergedCellPatterns, nextRowHeaderCount, cells, sikbomStyleDetected) ==
    \/ 10 * multiRowIndicators > 3 * cells /\ nextRowHeaderCount >= 2
    \/ 10 * mergedCellPatterns > 4 * cells /\ multiRowIndicators > 2
    \/ 10 * nextRowHeaderCount > 2 * cells /\ multiRowIndicators > 1
    \/ sikbomStyleDetected

\* Mutant of the value returned: the row below is taken in either dialect
MultiRowResultBelow(isMultiRow, sikbomStyleDetected, primaryHeaderRow) ==
    [isMultiRow |-> isMultiRow,
     headerRows |-> IF ~isMultiRow THEN <<primaryHeaderRow>>
                    ELSE <<primaryHeaderRow, primaryHeaderRow + 1>>]

\* The value returned, from the decision on
MultiRowResult(isMultiRow, sikbomStyleDetected, primaryHeaderRow) ==
    [isMultiRow |-> isMultiRow,
     headerRows |-> IF ~isMultiRow THEN <<primaryHeaderRow>>
                    ELSE IF sikbomStyleDetected
                         THEN <<primaryHeaderRow - 1, primaryHeaderRow>>
                         ELSE <<primaryHeaderRow, primaryHeaderRow + 1>>]

MultiRowDecision(counts, sikbomStyleDetected, primaryHeaderRow) ==
    MultiRowResult(IsMultiRow(SumField(counts, "indicators"),
                              SumField(counts, "merged"),
                              SumField(counts, "headers"),
                              Max(Len(counts), 1), sikbomStyleDetected),
                   sikbomStyleDetected, primaryHeaderRow)

\* detectMultiRowHeaders(data, primaryHeaderRow)
DetectMultiRowHeaders(data, primaryHeaderRow) ==
    IF primaryHeaderRow + 1 >= Len(data)
    THEN [isMultiRow |-> FALSE, headerRows |-> <<primaryHeaderRow>>]
    ELSE MultiRowDecision(
            ColumnCounts(RowAt(data, primaryHeaderRow),
                         RowAt(data, primaryHeaderRow + 1),
                         Min(Max(Len(RowAt(data, primaryHeaderRow)),
                                 Len(RowAt(data, primaryHeaderRow + 1))),
                             MaxColumnsChecked)),
            SikbomStyle(RowAt(data, primaryHeaderRow - 1),
                        RowAt(data, primaryHeaderRow),
                        primaryHeaderRow - 1 >= 0),
            primaryHeaderRow)

\* What detectHeaderRow returns for the best candidate
Detection(best, multiRowResult) ==
    [headerRow |-> best.row,
     confidence |-> Min(100, best.score),
     isMultiRowHeader |-> multiRowResult.isMultiRow,
     headerRows |-> multiRowResult.headerRows,
     hasHeaderRows |-> TRUE]

\* What detectHeaderRow returns for the sorted candidates; without a
\* candidate it returns neither isMultiRowHeader nor headerRows, which the
\* callers read as false and [headerRow]
DetectionOf(data, sorted) ==
    IF sorted = <<>>
    THEN [headerRow |-> 0, confidence |-> 30, isMultiRowHeader |-> FALSE,
          headerRows |-> <<0>>, hasHeaderRows |-> FALSE]
    ELSE Detection(sorted[1], DetectMultiRowHeaders(data, sorted[1].row))

\* detectHeaderRow on the rows of the sheet, which are not none (no rows is
\* the error 'No data found in Excel file')
DetectHeaderRow(data) ==
    DetectionOf(data,
                SortCandidates(<<>>, Candidates(data, Min(maxRowsToCheckLimit,
                                                          Len(data)))))

-----------------------------------------------------------------------------
(* processMergedCells and combineMultiRowHeaders *)

\* row.map(cell => (cell || '').toString().trim()).filter(header => header)
RECURSIVE TrimmedHeaders(_)
TrimmedHeaders(row) ==
    IF row = <<>> THEN <<>>
    ELSE IF CellText(Head(row)) # <<>>
         THEN <<CellText(Head(row))>> \o TrimmedHeaders(Tail(row))
         ELSE TrimmedHeaders(Tail(row))

\* The last column (counted from 0) of the row with a cell that is truthy
\* and not blank, -1 without one
RECURSIVE LastMeaningfulCol(_)
LastMeaningfulCol(row) ==
    IF row = <<>> THEN -1
    ELSE IF TruthyNonBlank(row[Len(row)]) THEN Len(row) - 1
    ELSE LastMeaningfulCol(SubSeq(row, 1, Len(row) - 1))

\* isSimpleStructure: secondaryNonEmptyCount >= maxCols * 0.6 and
\* sikbomRepeatedPattern.length < maxCols * 0.5 (maxCols * 0.6 is a whole
\* number for multiples of 5 only, and is computed exactly for those up to
\* the widths of this model)
IsSimpleStructure(secondaryRow, maxCols) ==
    /\ 10 * Count(secondaryRow, TruthyNonBlank) >= 6 * maxCols
    /\ 2 * Count(secondaryRow, IsSikbomSubHeader) < maxCols

\* The simple-structure branch: the row with more complete headers
SimpleHeaders(primaryRow, secondaryRow) ==
    IF Count(secondaryRow, TruthyNonBlank) > Count(primaryRow, TruthyNonBlank)
    THEN TrimmedHeaders(secondaryRow)
    ELSE TrimmedHeaders(primaryRow)

\* primaryHeaderMap[colIndex] = value, colIndex counted from 0
SetCol(map, colIndex, value) == [i \in 1..Len(map) |-> IF i = colIndex + 1 THEN value ELSE map[i]]

\* One iteration of the loop that builds primaryHeaderMap
MapStep(map, colIndex, maxCols, primaryHeader, currentSecondaryHeader, nextPrimaryHeader, nextSecondaryHeader) ==
    IF primaryHeader = <<>> THEN map
    ELSE IF /\ colIndex + 1 < maxCols
            /\ Includes(currentSecondaryHeader, GwaSe)
            /\ nextPrimaryHeader = <<>>
            /\ Includes(nextSecondaryHeader, MyeonSe)
         THEN SetCol(SetCol(map, colIndex, primaryHeader), colIndex + 1,
                     primaryHeader)
         ELSE SetCol(map, colIndex, primaryHeader)

RECURSIVE BuildMap(_, _, _, _, _)
BuildMap(map, colIndex, maxCols, primaryRow, secondaryRow) ==
    IF colIndex >= maxCols THEN map
    ELSE BuildMap(MapStep(map, colIndex, maxCols,
                          CellText(Cell(primaryRow, colIndex)),
                          CellText(Cell(secondaryRow, colIndex)),
                          CellText(Cell(primaryRow, colIndex + 1)),
                          CellText(Cell(secondaryRow, colIndex + 1))),
                  colIndex + 1, maxCols, primaryRow, secondaryRow)

JeongSanWanRyoIl ==
    <<"jeong", "san", "wan", "ryo", "il", "(", "il", "byeol", ")">>

MaxDateHeaders == 3

\* One iteration of the loop that rebuilds primaryHeaderMap; st is the map
\* and processedCols
FixStep(st, colIndex, maxCols, primaryHeader, nextSecondaryHeader) ==
    IF colIndex \in st.processedCols THEN st
    ELSE IF primaryHeader = <<>> THEN st
    ELSE IF colIndex + 1 < maxCols /\ Includes(nextSecondaryHeader, MyeonSe)
         THEN [map |-> SetCol(SetCol(st.map, colIndex, primaryHeader),
                              colIndex + 1, primaryHeader),
               processedCols |-> st.processedCols \cup {colIndex, colIndex + 1}]
         ELSE [map |-> SetCol(st.map, colIndex, primaryHeader),
               processedCols |-> st.processedCols \cup {colIndex}]

RECURSIVE FixMap(_, _, _, _, _)
FixMap(st, colIndex, maxCols, primaryRow, secondaryRow) ==
    IF colIndex >= maxCols THEN st.map
    ELSE FixMap(FixStep(st, colIndex, maxCols,
                        CellText(Cell(primaryRow, colIndex)),
                        CellText(Cell(secondaryRow, colIndex + 1))),
                colIndex + 1, maxCols, primaryRow, secondaryRow)

IsDateHeader(h) == h = JeongSanWanRyoIl

\* primaryHeaderMap after the post-processing validation
ValidatedMap(map, maxCols, primaryRow, secondaryRow) ==
    IF Count(map, IsDateHeader) > MaxDateHeaders
    THEN FixMap([map |-> [i \in 1..maxCols |-> <<>>], processedCols |-> {}],
                0, maxCols, primaryRow, secondaryRow)
    ELSE map

\* finalHeader of a column
FinalHeader(primaryHeader, secondaryHeader) ==
    IF primaryHeader # <<>> /\ secondaryHeader # <<>>
    THEN primaryHeader \o <<" ", ">", " ">> \o secondaryHeader
    ELSE IF primaryHeader # <<>> THEN primaryHeader
    ELSE secondaryHeader

\* if (finalHeader) combinedHeaders.push(finalHeader)
PushHeader(combinedHeaders, finalHeader) ==
    IF finalHeader # <<>> THEN Append(combinedHeaders, finalHeader)
    ELSE combinedHeaders

\* combinedHeaders after the loop over columns 0..n-1
RECURSIVE CombinedHeaders(_, _, _)
CombinedHeaders(map, secondaryRow, n) ==
    IF n = 0 THEN <<>>
    ELSE PushHeader(CombinedHeaders(map, secondaryRow, n - 1),
                    FinalHeader(map[n], CellText(Cell(secondaryRow, n - 1))))

\* if (!seen.has(header)) uniqueHeaders.push(header)
PushUnique(uniqueHeaders, header) ==
    IF \E i \in 1..Len(uniqueHeaders) : uniqueHeaders[i] = header
    THEN uniqueHeaders
    ELSE Append(uniqueHeaders, header)

\* Remove duplicates, the first occurrence stays
RECURSIVE UniqueHeaders(_)
UniqueHeaders(combinedHeaders) ==
    IF combinedHeaders = <<>> THEN <<>>
    ELSE PushUnique(UniqueHeaders(SubSeq(combinedHeaders, 1,
                                         Len(combinedHeaders) - 1)),
                    combinedHeaders[Len(combinedHeaders)])

\* The complex branch
ComplexHeaders(primaryRow, secondaryRow, maxCols) ==
    UniqueHeaders(
        CombinedHeaders(
            ValidatedMap(BuildMap([i \in 1..maxCols |-> <<>>], 0, maxCols,
                                  primaryRow, secondaryRow),
                         maxCols, primaryRow, secondaryRow),
            secondaryRow, maxCols))

\* combineMultiRowHeaders for two header rows
CombineTwoRows(primaryRow, secondaryRow, maxCols) ==
    IF IsSimpleStructure(secondaryRow, maxCols)
    THEN SimpleHeaders(primaryRow, secondaryRow)
    ELSE ComplexHeaders(primaryRow, secondaryRow, maxCols)

\* combineMultiRowHeaders(data, headerRows)
CombineMultiRowHeaders(data, headerRows) ==
    IF Len(headerRows) < 2
    THEN TrimmedHeaders(RowAt(data, headerRows[1]))
    ELSE CombineTwoRows(RowAt(data, headerRows[1]), RowAt(data, headerRows[2]),
                        Max(LastMeaningfulCol(RowAt(data, headerRows[1])),
                            LastMeaningfulCol(RowAt(data, headerRows[2]))) + 1)

-----------------------------------------------------------------------------
(* readExcelFile.  A file is [readable, sheetName, rows, merges]: whether  *)
(* XLSX.readFile reads it, the name of its first sheet, the sheet's cells  *)
(* as sheet_to_json(..., {header: 1}) yields them, and the sheet's         *)
(* !merges as [sr, sc, er, ec] (rows and columns counted from 0).          *)

\* A cell as sheet_to_json(..., {header: 1, raw: false}) yields it: the
\* formatted text (the cells of this model have the General format)
FormattedCell(cell) ==
    IF cell.t = "num" THEN Str(NumberToString(cell.n)) ELSE cell

FormattedRows(rows) ==
    [r \in 1..Len(rows) |->
        [c \in 1..Len(rows[r]) |-> FormattedCell(rows[r][c])]]

\* row[c] = value, c counted from 0: the array grows, with holes as needed
SetCell(row, c, value) ==
    [i \in 1..Max(Len(row), c + 1) |->
        IF i = c + 1 THEN value ELSE Cell(row, i - 1)]

\* if (!processedData[r][c]) processedData[r][c] = value
FillCell(row, c, value) ==
    IF Truthy(Cell(row, c)) THEN row ELSE SetCell(row, c, value)

\* Mutant of the loop over the columns: it ends at the first cell it fills
RECURSIVE FillRowOnce(_, _, _, _)
FillRowOnce(row, c, ec, value) ==
    IF c > ec THEN row
    ELSE IF Truthy(Cell(row, c)) THEN FillRowOnce(row, c + 1, ec, value)
    ELSE SetCell(row, c, value)

\* for (let c = merge.s.c; c <= merge.e.c; c++)
RECURSIVE FillRow(_, _, _, _)
FillRow(row, c, ec, value) ==
    IF c > ec THEN row
    ELSE FillRow(FillCell(row, c, value), c + 1, ec, value)

\* The callback of merges.forEach, from the value of the origin cell on;
\* the loop over rows stops at the last row of the grid
FillMerge(data, merge, value) ==
    [r \in 1..Len(data) |->
        IF r - 1 >= merge.sr /\ r - 1 <= merge.er
        THEN FillRow(data[r], merge.sc, merge.ec, value)
        ELSE data[r]]

\* processMergedCells(data, merges)
RECURSIVE ProcessMergedCells(_, _)
ProcessMergedCells(data, merges) ==
    IF merges = <<>> THEN data
    ELSE ProcessMergedCells(
            FillMerge(data, Head(merges),
                      Cell(RowAt(data, Head(merges).sr), Head(merges).sc)),
            Tail(merges))

\* if (header) obj[header] = row[index]
PutIfHeader(obj, header, value) ==
    IF Truthy(header) THEN Put(obj, ValueToString(header), value) ELSE obj

\* The object of a data row: headers.forEach over the first n headers
RECURSIVE RowObject(_, _, _)
RowObject(headers, row, n) ==
    IF n = 0 THEN <<>>
    ELSE PutIfHeader(RowObject(headers, row, n - 1), headers[n],
                     Cell(row, n - 1))

\* Math.max(...headerRows)
RECURSIVE SeqMax(_)
SeqMax(s) ==
    IF Len(s) = 1 THEN s[1] ELSE Max(Head(s), SeqMax(Tail(s)))

\* isMultiRowHeader && headerRows.length > 1
UsesCombinedHeader(detection) ==
    detection.isMultiRowHeader /\ Len(detection.headerRows) > 1

\* combinedHeaders as a list of headers
AsHeaders(names) == [i \in 1..Len(names) |-> Str(names[i])]

\* headers
HeadersOf(data, detection) ==
    IF UsesCombinedHeader(detection)
    THEN AsHeaders(CombineMultiRowHeaders(data, detection.headerRows))
    ELSE RowAt(data, detection.headerRow)

\* dataStartRow
DataStartRow(detection) ==
    IF UsesCombinedHeader(detection) THEN SeqMax(detection.headerRows) + 1
    ELSE detection.headerRow + 1

\* data.slice(dataStartRow).map(row => obj)
ObjectsOf(headers, rows) ==
    [r \in 1..Len(rows) |-> RowObject(headers, rows[r], Len(headers))]

\* data, the row objects
RowObjects(data, detection) ==
    IF Len(data) > SeqMax(detection.headerRows)
    THEN ObjectsOf(HeadersOf(data, detection),
                   SubSeq(data, DataStartRow(detection) + 1, Len(data)))
    ELSE <<>>

\* The message of the error the validation of the options throws, "" when
\* it throws none
ValidationError(opts) ==
    IF opts.dateColumn = <<>> THEN "date column not specified"
    ELSE IF opts.useTaxTypeClassification
    THEN IF opts.taxTypeColumn = <<>> THEN "tax type column not specified"
         ELSE IF opts.useMultiColumnSum
         THEN IF opts.amountColumns = <<>>
              THEN "no amount column specified for multi-column sum"
              ELSE ""
         ELSE IF opts.amountColumn = <<>> THEN "amount column not specified"
         ELSE ""
    ELSE IF opts.taxExemptColumn = <<>> \/ opts.taxableColumn = <<>>
    THEN "tax-exempt and taxable columns not both specified"
    ELSE ""

\* replace(/\n/g, ' ')
ReplaceNewlines(s) == [i \in 1..Len(s) |-> IF s[i] = "nl" THEN " " ELSE s[i]]

\* replace(/\s+/g, ' ')
RECURSIVE CollapseSpaces(_)
CollapseSpaces(s) ==
    IF s = <<>> THEN <<>>
    ELSE IF Head(s) \in Space THEN <<" ">> \o CollapseSpaces(TrimStart(s))
    ELSE <<Head(s)>> \o CollapseSpaces(Tail(s))

normalizeHeader(headerName) ==
    ToLowerCase(Trim(CollapseSpaces(ReplaceNewlines(headerName))))

HwakJeongJeongSanDaeSangGeumAek ==
    <<"hwak", "jeong", " ", "jeong", "san", "dae", "sang", "geum", "aek">>

\* Whether the special handling of the Sikbom-style pattern applies to a name
IsSettlementExempt(normalized) ==
    /\ Includes(normalized, HwakJeongJeongSanDaeSangGeumAek)
    /\ Includes(normalized, MyeonSe)

\* availableColumns.find(test), '' for undefined (no column is named '')
Find(columns, Test(_)) ==
    IF SelectSeq(columns, Test) = <<>> THEN <<>> ELSE SelectSeq(columns, Test)[1]

\* Mutant of findMatchingColumn: the comparison of the normalised names
\* first, before the exact match
findNormalizedFirst(searchColumn, availableColumns) ==
    IF Find(availableColumns,
            LAMBDA col : normalizeHeader(col) = normalizeHeader(searchColumn))
            # <<>>
    THEN Find(availableColumns,
              LAMBDA col : normalizeHeader(col) = normalizeHeader(searchColumn))
    ELSE IF IsSettlementExempt(normalizeHeader(searchColumn))
    THEN Find(availableColumns, LAMBDA col : IsSettlementExempt(normalizeHeader(col)))
    ELSE <<>>

\* findMatchingColumn(searchColumn), '' for null
findMatchingColumn(searchColumn, availableColumns) ==
    IF \E i \in 1..Len(availableColumns) : availableColumns[i] = searchColumn
    THEN searchColumn
    ELSE IF Find(availableColumns,
                 LAMBDA col : normalizeHeader(col) = normalizeHeader(searchColumn))
            # <<>>
    THEN Find(availableColumns,
              LAMBDA col : normalizeHeader(col) = normalizeHeader(searchColumn))
    ELSE IF IsSettlementExempt(normalizeHeader(searchColumn))
    THEN Find(availableColumns, LAMBDA col : IsSettlementExempt(normalizeHeader(col)))
    ELSE <<>>

\* The option after the check of one column: the name found, or the name
\* as it was when none is found
Matched(column, found) == IF found # <<>> THEN found ELSE column

\* updatedAmountColumns
RECURSIVE MatchedColumns(_, _)
MatchedColumns(columns, availableColumns) ==
    IF columns = <<>> THEN <<>>
    ELSE IF findMatchingColumn(Head(columns), availableColumns) # <<>>
    THEN <<findMatchingColumn(Head(columns), availableColumns)>>
            \o MatchedColumns(Tail(columns), availableColumns)
    ELSE MatchedColumns(Tail(columns), availableColumns)

\* The options after the check of the columns (the object is updated in
\* place, before the error for missing columns is thrown)
MatchedOptions(opts, availableColumns) ==
    IF opts.useTaxTypeClassification
    THEN IF opts.useMultiColumnSum
         THEN [opts EXCEPT
                !.dateColumn = Matched(@, findMatchingColumn(@, availableColumns)),
                !.taxTypeColumn = Matched(@, findMatchingColumn(@, availableColumns)),
                !.amountColumns = MatchedColumns(@, availableColumns)]
         ELSE [opts EXCEPT
                !.dateColumn = Matched(@, findMatchingColumn(@, availableColumns)),
                !.taxTypeColumn = Matched(@, findMatchingColumn(@, availableColumns)),
                !.amountColumn = Matched(@, findMatchingColumn(@, availableColumns))]
    ELSE [opts EXCEPT
            !.dateColumn = Matched(@, findMatchingColumn(@, availableColumns)),
            !.taxExemptColumn = Matched(@, findMatchingColumn(@, availableColumns)),
            !.taxableColumn = Matched(@, findMatchingColumn(@, availableColumns))]

\* The columns of the options the check looks for
RequiredColumns(opts) ==
    IF opts.useTaxTypeClassification
    THEN IF opts.useMultiColumnSum
         THEN <<opts.dateColumn, opts.taxTypeColumn>> \o opts.amountColumns
         ELSE <<opts.dateColumn, opts.taxTypeColumn, opts.amountColumn>>
    ELSE <<opts.dateColumn, opts.taxExemptColumn, opts.taxableColumn>>

\* What an error message names: the role of a column and, in the message
\* for columns not found, the configured name
Named(role, name) == [role |-> role, name |-> name]

\* The roles of the columns the check looks for, in the order of the check
RequiredRoles(opts) ==
    IF opts.useTaxTypeClassification
    THEN IF opts.useMultiColumnSum
         THEN <<"date", "taxType">> \o [i \in 1..Len(opts.amountColumns) |-> "amount"]
         ELSE <<"date", "taxType", "amount">>
    ELSE <<"date", "taxExempt", "taxable">>

\* missingColumns: one entry pushed per column findMatchingColumn finds not
RECURSIVE MissingColumns(_, _, _)
MissingColumns(required, roles, availableColumns) ==
    IF required = <<>> THEN <<>>
    ELSE IF findMatchingColumn(Head(required), availableColumns) = <<>>
    THEN <<Named(Head(roles), Head(required))>>
            \o MissingColumns(Tail(required), Tail(roles), availableColumns)
    ELSE MissingColumns(Tail(required), Tail(roles), availableColumns)

\* The columns the message of the option validation names
ValidationNamed(opts) ==
    IF opts.dateColumn = <<>> THEN <<Named("date", <<>>)>>
    ELSE IF opts.useTaxTypeClassification
    THEN IF opts.taxTypeColumn = <<>> THEN <<Named("taxType", <<>>)>>
         ELSE <<Named("amount", <<>>)>>
    ELSE <<Named("taxExempt", <<>>), Named("taxable", <<>>)>>

\* What a call of readExcelFile leaves: whether it threw and the message
\* (named: the columns the message names), the records returned, the row
\* objects it built, whether it built them under a combined header, the
\* options object and the date context
Outcome(error, records, data, combined, opts, ctx) ==
    [threw |-> error # "", error |-> error, named |-> <<>>, records |-> records,
     data |-> data, combined |-> combined, options |-> opts, ctx |-> ctx]

\* readExcelFile from the check of the columns on
CheckedAndParsed(data, combined, opts, missingColumns, ctx) ==
    IF missingColumns # <<>>
    THEN [Outcome("columns not found", <<>>, data, combined, opts, ctx)
            EXCEPT !.named = missingColumns]
    ELSE Outcome("", ParseMonthlyData(data, opts, ctx), data, combined, opts, ctx)

\* readExcelFile from the row objects on
Extracted(data, combined, opts, ctx) ==
    IF data = <<>> THEN Outcome("", <<>>, data, combined, opts, ctx)
    ELSE IF ValidationError(opts) # ""
    THEN [Outcome(ValidationError(opts), <<>>, data, combined, opts, ctx)
            EXCEPT !.named = ValidationNamed(opts)]
    ELSE CheckedAndParsed(data, combined,
                          MatchedOptions(opts, ObjectKeys(data[1])),
                          MissingColumns(RequiredColumns(opts), RequiredRoles(opts),
                                         ObjectKeys(data[1])),
                          ctx)

\* readExcelFile from the detection of the header on.  rawData are the
\* formatted rows; with merges the rows are those processMergedCells
\* returns.
ReadSheet(rawData, merges, detection, opts, before) ==
    Extracted(RowObjects(IF merges # <<>>
                         THEN ProcessMergedCells(rawData, merges)
                         ELSE rawData,
                         detection),
              /\ UsesCombinedHeader(detection)
              /\ Len(rawData) > SeqMax(detection.headerRows),
              opts,
              ExtractSikbomDateContext(before, rawData))

\* headerRowIndex, isMultiRowHeader and headerRows for options.headerRow
GivenHeaderRow(headerRow) ==
    [headerRow |-> headerRow, confidence |-> 0, isMultiRowHeader |-> FALSE,
     headerRows |-> <<headerRow>>, hasHeaderRows |-> TRUE]

\* readExcelFile(filePath, options) on a service whose date context is
\* before; headerRow = -1 is undefined
ReadExcelFile(file, opts, before) ==
    IF ~file.readable
    THEN Outcome("cannot read file", <<>>, <<>>, FALSE, opts, before)
    ELSE IF opts.sheetName # <<>> /\ opts.sheetName # file.sheetName
    THEN Outcome("sheet not found", <<>>, <<>>, FALSE, opts, before)
    ELSE IF opts.headerRow = -1 /\ file.rows = <<>>
    THEN Outcome("No data found in Excel file", <<>>, <<>>, FALSE, opts, before)
    ELSE ReadSheet(FormattedRows(file.rows), file.merges,
                   IF opts.headerRow = -1 THEN DetectHeaderRow(file.rows)
                   ELSE GivenHeaderRow(opts.headerRow),
                   opts, before)

-----------------------------------------------------------------------------
(* The process-files handler of main.ts.  The handler awaits readExcelFile *)
(* once per file; readExcelFile awaits detectHeaderRow, which reads the    *)
(* file synchronously, so every await resumes from the microtask queue     *)
(* and no other handler runs in between.  batch holds the file paths the   *)
(* loop has not reached, results the local array, response the value      *)
(* returned.                                                               *)

Running == [state |-> "running", success |-> FALSE, data |-> <<>>, error |-> ""]

\* return { success: true, data: results }
Success(data) ==
    [state |-> "returned", success |-> TRUE, data |-> data, error |-> ""]

\* return { success: false, error: error.message }
Failure(message) ==
    [state |-> "returned", success |-> FALSE, data |-> <<>>, error |-> message]

\* ipcMain.handle('process-files', ...) is invoked with the files selected
ProcessFiles(filePaths, opts) ==
    /\ response.state # "running"
    /\ batch' = filePaths
    /\ results' = <<>>
    /\ options' = opts
    /\ response' = Running
    /\ call' = [op |-> "process-files", args |-> <<filePaths, opts>>, ret |-> <<>>]
    /\ UNCHANGED sikbomDateContext

\* One iteration of the loop, from the outcome of readExcelFile on: the
\* result is pushed, or the error leaves the loop for the catch clause
Iteration(file, outcome) ==
    /\ sikbomDateContext' = outcome.ctx
    /\ options' = outcome.options
    /\ IF outcome.threw
       THEN /\ response' = Failure(outcome.error)
            /\ UNCHANGED <<batch, results>>
       ELSE /\ results' = Append(results,
                                 CalculateTotals([mallName |-> file.name,
                                                  filePath |-> file.name,
                                                  data |-> outcome.records]))
            /\ batch' = Tail(batch)
            /\ UNCHANGED response
    /\ UNCHANGED call

ProcessNextFile ==
    /\ response.state = "running"
    /\ batch # <<>>
    /\ Iteration(Head(batch), ReadExcelFile(Head(batch), options, sikbomDateContext))

ReturnResults ==
    /\ response.state = "running"
    /\ batch = <<>>
    /\ response' = Success(results)
    /\ UNCHANGED <<sikbomDateContext, options, batch, results, call>>

-----------------------------------------------------------------------------
(* detectHeaderRow called once on a sheet: up to MaxLeadRows empty or      *)
(* title rows, a header row of text, one to MaxDataRows data rows.         *)

MaxLeadRows == 3
MaxDataRows == 2

SalesReport == <<"S", "a", "l", "e", "s", " ", "r", "e", "p", "o", "r", "t">>
PeriodTitle ==
    <<"gi", "gan", ":", " ", "2", "0", "2", "4", "nyeon", " ", "1", "wol">>

LeadRowKinds == { <<>>, <<Str(SalesReport)>>, <<Str(PeriodTitle)>> }

HeaderRowKinds ==
    { <<Str(<<"D", "a", "t", "e">>), Str(<<"A", "m", "o", "u", "n", "t">>)>>,
      <<Str(<<"N", "a", "m", "e">>), Str(<<"Q", "t", "y">>)>>,
      <<Str(<<"P", "r", "i", "c", "e", "(", "$", ")">>),
        Str(<<"Q", "t", "y", ".">>)>>,
      <<Str(NalJja), Str(GeumAek)>> }

DataRowKinds ==
    { <<Num(100), Num(2)>>, <<Str(IsoString(2024, 1, 15)), Num(100)>> }

\* The sequences over kinds of length lo..hi
RECURSIVE RowSeqs(_, _, _)
RowSeqs(kinds, lo, hi) ==
    IF hi = 0 THEN {<<>>}
    ELSE {s \in RowSeqs(kinds, 0, hi - 1) : Len(s) >= lo}
            \cup {Append(s, r) : s \in {x \in RowSeqs(kinds, 0, hi - 1) :
                                            Len(x) = hi - 1},
                                 r \in kinds}

\* n empty rows
EmptyRows(n) == [i \in 1..n |-> <<>>]

\* Sheets whose header is the eleventh row, under ten empty rows and under
\* a title and nine empty rows, and a sheet of one row that scores 0
LongSheets ==
    { EmptyRows(10) \o <<<<Str(NalJja), Str(GeumAek)>>, <<Str(IsoString(2024, 1, 15)), Num(100)>>>>,
      <<<<Str(SalesReport)>>>> \o EmptyRows(9)
          \o <<<<Str(NalJja), Str(GeumAek)>>, <<Str(IsoString(2024, 1, 15)), Num(100)>>>>,
      <<<<Str(<<"1", ".", "5">>), Null, Null>>>> }

Sheets ==
    {lead \o <<header>> \o rows :
        lead \in RowSeqs(LeadRowKinds, 0, MaxLeadRows),
        header \in HeaderRowKinds,
        rows \in RowSeqs(DataRowKinds, 1, MaxDataRows)}
    \cup LongSheets

CallDetectHeaderRow(data) ==
    /\ call.op = "none"
    /\ call' = [op |-> "detectHeaderRow", args |-> <<data>>,
                ret |-> DetectHeaderRow(data)]
    /\ UNCHANGED <<sikbomDateContext, options, batch, results, response>>

NextDetect == \E data \in Sheets : CallDetectHeaderRow(data)

SpecDetect == Idle /\ [][NextDetect]_vars

-----------------------------------------------------------------------------
(* Claims about detectHeaderRow *)

DetectCall == call.op = "detectHeaderRow"

\* Every cell of the row is a non-empty text cell
TextRow(row) ==
    /\ row # <<>>
    /\ \A c \in 1..Len(row) : NonBlank(row[c]) /\ IsTextCell(row[c])

\* Every cell of the row is a number
NumberRow(row) ==
    /\ row # <<>>
    /\ \A c \in 1..Len(row) : row[c].t = "num"

EmptyGridRow(row) == \A c \in 1..Len(row) : ~NonBlank(row[c])

TitleRow(row) == Len(row) = 1 /\ TextRow(row)

\* Row h (counted from 0) is a text header and all rows below it are rows
\* of numbers, at least one
HeaderOverNumbers(data, h) ==
    /\ h + 1 < Len(data)
    /\ TextRow(data[h + 1])
    /\ Len(data[h + 1]) > 1
    /\ \A r \in (h + 2)..Len(data) : NumberRow(data[r])

\* C4: for a grid with a single unambiguous text header row (the only row
\* with text: the rows above are empty, the rows below are numeric data
\* rows, at least one), detectHeaderRow returns that row's index with
\* confidence >= 80.
C4_HeaderFoundWithConfidence ==
    DetectCall =>
        \A h \in 0..(Len(call.args[1]) - 1) :
            ( /\ HeaderOverNumbers(call.args[1], h)
              /\ \A r \in 1..h : EmptyGridRow(call.args[1][r]) )
            => /\ call.ret.headerRow = h
               /\ call.ret.confidence >= 80

\* C5: for a grid whose first K rows (K < 10) are empty rows or single-cell
\* title rows and whose row K is the header (text cells over numeric data
\* rows), detectHeaderRow returns K.
C5_HeaderFoundAfterTitles ==
    DetectCall =>
        \A K \in 0..Min(9, Len(call.args[1]) - 1) :
            ( /\ HeaderOverNumbers(call.args[1], K)
              /\ \A r \in 1..K : \/ EmptyGridRow(call.args[1][r])
                                 \/ TitleRow(call.args[1][r]) )
            => call.ret.headerRow = K

-----------------------------------------------------------------------------
(* combineMultiRowHeaders called once: on one header row, or on a primary  *)
(* and a secondary row, of MaxHeaderCols columns.                          *)

MaxHeaderCols == 3

SuRyang == <<"su", "ryang">>

PrimaryCells == {Null, Str(NalJja), Str(JuMunGeumAek)}
SecondaryCells == {Null, Str(GwaSe), Str(MyeonSe), Str(SuRyang)}

\* The rows of n cells
RECURSIVE RowsOf(_, _)
RowsOf(cells, n) ==
    IF n = 0 THEN {<<>>}
    ELSE {Append(r, c) : r \in RowsOf(cells, n - 1), c \in cells}

\* A date header merged over four columns and filled in by
\* processMergedCells, over tax-type sub-headers
MergedDateHeaderGrid ==
    << <<Str(JeongSanWanRyoIl), Str(JeongSanWanRyoIl), Str(JeongSanWanRyoIl),
         Str(JeongSanWanRyoIl), Str(JuMunGeumAek)>>,
       <<Null, Str(MyeonSe), Str(GwaSe), Str(MyeonSe), Str(GwaSe)>> >>

\* The merged date header over tax-type sub-headers, with two more columns
\* to its right
MergedDateHeaderGrids ==
    { << <<Str(JeongSanWanRyoIl), Str(JeongSanWanRyoIl), Str(JeongSanWanRyoIl),
           Str(JeongSanWanRyoIl)>> \o p,
         <<Null>> \o d \o s >> :
        p \in RowsOf(PrimaryCells, 2),
        d \in RowsOf({Str(GwaSe), Str(MyeonSe)}, 3),
        s \in RowsOf(SecondaryCells, 2) }

HeaderGrids ==
    {<<p>> : p \in RowsOf(PrimaryCells, MaxHeaderCols)}
        \cup {<<p, s>> : p \in RowsOf(PrimaryCells, MaxHeaderCols),
                         s \in RowsOf(SecondaryCells, MaxHeaderCols)}
        \cup {MergedDateHeaderGrid}
        \cup MergedDateHeaderGrids

CallCombineMultiRowHeaders(data) ==
    /\ call.op = "none"
    /\ call' = [op |-> "combineMultiRowHeaders",
                args |-> <<data, IF Len(data) = 1 THEN <<0>> ELSE <<0, 1>> >>,
                ret |-> CombineMultiRowHeaders(data, IF Len(data) = 1 THEN <<0>>
                                                     ELSE <<0, 1>>)]
    /\ UNCHANGED <<sikbomDateContext, options, batch, results, response>>

NextCombine == \E data \in HeaderGrids : CallCombineMultiRowHeaders(data)

SpecCombine == Idle /\ [][NextCombine]_vars

-----------------------------------------------------------------------------
(* Claims about combineMultiRowHeaders *)

CombineCall == call.op = "combineMultiRowHeaders"

\* The name each column (counted from 1) yields, <<>> for none
ColumnNames(primaryRow, secondaryRow, maxCols, twoRows) ==
    IF ~twoRows
    THEN [c \in 1..Len(primaryRow) |-> CellText(primaryRow[c])]
    ELSE IF IsSimpleStructure(secondaryRow, maxCols)
    THEN IF Count(secondaryRow, TruthyNonBlank) > Count(primaryRow, TruthyNonBlank)
         THEN [c \in 1..Len(secondaryRow) |-> CellText(secondaryRow[c])]
         ELSE [c \in 1..Len(primaryRow) |-> CellText(primaryRow[c])]
    ELSE [c \in 1..maxCols |->
            FinalHeader(ValidatedMap(BuildMap([i \in 1..maxCols |-> <<>>], 0,
                                              maxCols, primaryRow, secondaryRow),
                                     maxCols, primaryRow, secondaryRow)[c],
                        CellText(Cell(secondaryRow, c - 1)))]

CallColumnNames ==
    ColumnNames(RowAt(call.args[1], 0), RowAt(call.args[1], 1),
                Max(LastMeaningfulCol(RowAt(call.args[1], 0)),
                    LastMeaningfulCol(RowAt(call.args[1], 1))) + 1,
                Len(call.args[2]) = 2)

\* The first column that yields the name
FirstColumn(names, name) ==
    CHOOSE c \in 1..Len(names) :
        names[c] = name /\ \A b \in 1..(c - 1) : names[b] # name

\* C7: the list combineMultiRowHeaders returns for one or two header rows
\* holds no name more than once, and its names are in left-to-right column
\* order of their first appearance.
C7_UniqueInColumnOrder ==
    CombineCall =>
        /\ \A i, j \in 1..Len(call.ret) : call.ret[i] = call.ret[j] => i = j
        /\ \A i \in 1..Len(call.ret) :
              \E c \in 1..Len(CallColumnNames) : CallColumnNames[c] = call.ret[i]
        /\ \A i, j \in 1..Len(call.ret) :
              i < j => FirstColumn(CallColumnNames, call.ret[i])
                          <= FirstColumn(CallColumnNames, call.ret[j])

-----------------------------------------------------------------------------
(* Files *)

Sheet1 == <<"S", "h", "e", "e", "t", "1">>

File(name, rows, merges) ==
    [name |-> name, readable |-> TRUE, sheetName |-> Sheet1, rows |-> rows,
     merges |-> merges]

\* A path XLSX.readFile cannot read
MissingFile ==
    [name |-> "missing", readable |-> FALSE, sheetName |-> Sheet1,
     rows |-> <<>>, merges |-> <<>>]

\* "2024년 1월 총 매출" and the like
TitleOf(y, m) ==
    NatDigits(y) \o <<"nyeon", " ">> \o NatDigits(m)
        \o <<"wol", " ", "chong", " ", "mae", "chul">>

TraditionalHeader == <<Str(NalJja), Str(MyeonSeGeumAek), Str(GwaSeGeumAek)>>

\* The header with names that need the flexible matching
PaddedHeader ==
    <<Str(<<" ">> \o NalJja \o <<" ">>), Str(MyeonSeGeumAek), Str(GwaSeGeumAek)>>

TitleKinds == { <<>>, << <<Str(TitleOf(2024, 1))>> >> }

FileRowKinds ==
    { <<Str(IsoString(2024, 3, 5)), Num(100), Num(50)>>,
      <<Str(DayOnly(5)), Num(70), Num(30)>> }

MaxFileRows == 2

\* Title rows or none, the header, one to MaxFileRows data rows
PlainFiles ==
    {File("plain", title \o <<TraditionalHeader>> \o rows, <<>>) :
        title \in TitleKinds, rows \in RowSeqs(FileRowKinds, 1, MaxFileRows)}

BaeSongBi == <<"bae", "song", "bi">>
ChongAek == <<"chong", "aek">>

\* A two-row header with the order amount over taxable and tax-exempt
TwoRowRows ==
    << <<Str(NalJja), Str(JuMunGeumAek), Null, Str(BaeSongBi), Str(ChongAek)>>,
       <<Null, Str(GwaSe), Str(MyeonSe)>>,
       <<Str(IsoString(2024, 1, 15)), Num(100), Num(50), Num(3), Num(153)>> >>

\* The same with an unnamed column between the date and the amounts
SpacedTwoRowRows ==
    << <<Str(NalJja), Null, Str(JuMunGeumAek), Null, Str(BaeSongBi)>>,
       <<Null, Null, Str(GwaSe), Str(MyeonSe)>>,
       <<Str(IsoString(2024, 1, 15)), Null, Num(100), Num(50), Num(3)>> >>

SpecialFiles ==
    { File("two-row", TwoRowRows, <<>>),
      File("two-row-merged", TwoRowRows,
           <<[sr |-> 0, sc |-> 1, er |-> 0, ec |-> 2]>>),
      File("two-row-spaced", SpacedTwoRowRows, <<>>),
      File("padded", <<PaddedHeader, <<Str(IsoString(2024, 3, 5)), Num(100), Num(50)>> >>,
           <<>>),
      File("empty", <<>>, <<>>),
      File("feb", << <<Str(TitleOf(2023, 2))>>, TraditionalHeader,
                     <<Str(DayOnly(28)), Num(70), Num(30)>>,
                     <<Str(DayOnly(29)), Num(100), Num(50)>> >>, <<>>),
      File("late-title", << <<>>, <<>>, <<>>, <<>>, <<>>,
                            <<Str(TitleOf(2024, 1))>>, TraditionalHeader,
                            <<Str(DayOnly(5)), Num(70), Num(30)>> >>, <<>>),
      MissingFile }

Files == PlainFiles \cup SpecialFiles

\* The options for the two-row header
TwoRowOptions ==
    [BaseOptions EXCEPT
        !.taxExemptColumn = JuMunGeumAek \o <<" ", ">", " ">> \o MyeonSe,
        !.taxableColumn = JuMunGeumAek \o <<" ", ">", " ">> \o GwaSe]

-----------------------------------------------------------------------------
(* readExcelFile called any number of times on one service, by a caller    *)
(* that hands over a new options object or the one of the last call.       *)

\* The call returns or throws
AfterReadExcelFile(file, opts, outcome) ==
    /\ call' = [op |-> "readExcelFile",
                args |-> <<file, opts, sikbomDateContext>>, ret |-> outcome]
    /\ sikbomDateContext' = outcome.ctx
    /\ options' = outcome.options
    /\ UNCHANGED <<batch, results, response>>

CallReadExcelFile(file, opts) ==
    AfterReadExcelFile(file, opts, ReadExcelFile(file, opts, sikbomDateContext))

NextRead ==
    \E file \in Files, opts \in {TraditionalOptions, TwoRowOptions, options} :
        CallReadExcelFile(file, opts)

SpecRead == Idle /\ [][NextRead]_vars

-----------------------------------------------------------------------------
(* process-files invoked with up to MaxBatch of the files selected         *)

MaxBatch == 2

BatchFiles ==
    { File("jan", << <<Str(TitleOf(2024, 1))>>, TraditionalHeader,
                     <<Str(DayOnly(5)), Num(70), Num(30)>> >>, <<>>),
      File("days", <<TraditionalHeader, <<Str(DayOnly(5)), Num(70), Num(30)>> >>,
           <<>>),
      File("march", <<TraditionalHeader,
                      <<Str(IsoString(2024, 3, 5)), Num(100), Num(50)>> >>, <<>>),
      File("empty", <<>>, <<>>),
      MissingFile }

NextBatch ==
    \/ \E filePaths \in RowSeqs(BatchFiles, 0, MaxBatch) :
          ProcessFiles(filePaths, TraditionalOptions)
    \/ ProcessNextFile
    \/ ReturnResults

SpecBatch == Idle /\ [][NextBatch]_vars

-----------------------------------------------------------------------------
(* readExcelFile called once on a freshly constructed service with options *)
(* that are complete, lack a field of their mode, name columns the file    *)
(* does not have, or give the sheet or the header row.                     *)

MaxGivenHeaderRow == 2

MarchRow == <<Str(IsoString(2024, 3, 5)), Num(100), Num(50)>>

\* A column named " 날짜" before the column named "날짜"
TwoDatesRows ==
    << <<Str(<<" ">> \o NalJja)>> \o TraditionalHeader,
       <<Str(IsoString(2024, 1, 15))>> \o MarchRow >>

\* "확정 정산대상금액 (A-B) > 면세" and the like
SettlementColumn(a, b) ==
    HwakJeongJeongSanDaeSangGeumAek \o <<" ", "(", a, "-", b, ")", " ", ">", " ">>

\* Names written with a newline, doubled spaces and capitals; a settlement
\* column of another formula
SettlementRows ==
    << <<Str(<<"D", "a", "t", "e">>),
         Str(SettlementColumn("C", "D") \o MyeonSe),
         Str(<<"T", "a", "x", "nl", " ", "A", "m", "t">>)>>,
       MarchRow >>

SettlementOptions ==
    [BaseOptions EXCEPT
        !.dateColumn = <<"d", "a", "t", "e">>,
        !.taxExemptColumn = SettlementColumn("A", "B") \o MyeonSe,
        !.taxableColumn = <<"t", "a", "x", " ", "a", "m", "t">>]

ConfiguredFiles ==
    { File("march", <<TraditionalHeader, MarchRow>>, <<>>),
      File("jan", << <<Str(TitleOf(2024, 1))>>, TraditionalHeader,
                     <<Str(DayOnly(5)), Num(70), Num(30)>> >>, <<>>),
      File("header-only", <<TraditionalHeader>>, <<>>),
      File("padded", <<PaddedHeader, MarchRow>>, <<>>),
      File("two-dates", TwoDatesRows, <<>>),
      File("settlement", SettlementRows, <<>>),
      File("empty", <<>>, <<>>) }

OtherSheet == <<"O", "t", "h", "e", "r">>

ConfiguredOptions ==
    { TraditionalOptions, DefaultTaxTypeOptions, MultiColumnOptions,
      SettlementOptions,
      [TraditionalOptions EXCEPT !.dateColumn = <<>>],
      [TraditionalOptions EXCEPT !.taxExemptColumn = <<>>],
      [TraditionalOptions EXCEPT !.taxableColumn = <<>>],
      [BaseOptions EXCEPT !.dateColumn = <<>>],
      [DefaultTaxTypeOptions EXCEPT !.taxTypeColumn = <<>>],
      [DefaultTaxTypeOptions EXCEPT !.amountColumn = <<>>],
      [MultiColumnOptions EXCEPT !.amountColumns = <<>>],
      [MultiColumnOptions EXCEPT !.taxTypeColumn = <<>>, !.amountColumns = <<>>],
      [TraditionalOptions EXCEPT !.taxExemptColumn = Garbage,
                                 !.taxableColumn = Unknown],
      [TraditionalOptions EXCEPT !.dateColumn = Garbage,
                                 !.taxExemptColumn = <<>>],
      [TraditionalOptions EXCEPT !.sheetName = Sheet1],
      [TraditionalOptions EXCEPT !.sheetName = OtherSheet] }
    \cup
    { [TraditionalOptions EXCEPT !.headerRow = h] : h \in 0..MaxGivenHeaderRow }

ReadConfigured(file, opts) ==
    /\ call.op = "none"
    /\ CallReadExcelFile(file, opts)

NextConfigured ==
    \E file \in ConfiguredFiles, opts \in ConfiguredOptions :
        ReadConfigured(file, opts)

SpecConfigured == Idle /\ [][NextConfigured]_vars

-----------------------------------------------------------------------------
(* Claims about readExcelFile *)

ReadCall == call.op = "readExcelFile"

\* The grid readExcelFile takes headers and data rows from
GridRead(file) ==
    IF file.merges # <<>>
    THEN ProcessMergedCells(FormattedRows(file.rows), file.merges)
    ELSE FormattedRows(file.rows)

\* The names the columns of the two header rows yield
TwoRowNames(grid, headerRows) ==
    ColumnNames(RowAt(grid, headerRows[1]), RowAt(grid, headerRows[2]),
                Max(LastMeaningfulCol(RowAt(grid, headerRows[1])),
                    LastMeaningfulCol(RowAt(grid, headerRows[2]))) + 1,
                TRUE)

\* Every object holds, under the name of each column that is the first to
\* yield its name, the row's cell at that column
ObjectsAligned(grid, headerRows, names, data) ==
    \A r \in 1..Len(data) :
        \A c \in 1..Len(names) :
            (names[c] # <<>> /\ FirstColumn(names, names[c]) = c)
            => Get(data[r], names[c])
                  = Cell(RowAt(grid, SeqMax(headerRows) + r), c - 1)

DateColumnRead == Or(call.ret.options.dateColumn, NalJja)

\* Whether the call got as far as reading the rows of the sheet
ReachedRows ==
    call.ret.error \notin {"cannot read file", "sheet not found",
                           "No data found in Excel file"}

\* C8: the month/year context that resolves the day-only dates of a file
\* is the one of the file's own title rows, or none: whatever the service
\* held before the call, its context after the rows are read is the
\* file's own, and the records returned are those the rows yield under the
\* file's own context.
C8_ContextIsPerFile ==
    (ReadCall /\ ReachedRows) =>
        /\ sikbomDateContext = FoundContext(FormattedRows(call.args[1].rows))
        /\ ~call.ret.threw =>
              call.ret.records
                 = ParseMonthlyData(call.ret.data, call.ret.options,
                                    FoundContext(FormattedRows(call.args[1].rows)))

\* A file without title context is read on a service that holds the
\* context of an earlier file: its day-only date, which the earlier
\* context would resolve, yields no record
C8_Witness ==
    /\ ReadCall
    /\ call.args[3].ok
    /\ ~call.ret.threw
    /\ ~FoundContext(FormattedRows(call.args[1].rows)).ok
    /\ Len(call.ret.data) = 1
    /\ ParseDate(Get(call.ret.data[1], DateColumnRead), call.args[3]).ok
    /\ ~ParseDate(Get(call.ret.data[1], DateColumnRead), NoDate).ok
    /\ call.ret.records = <<>>
    /\ ~sikbomDateContext.ok

-----------------------------------------------------------------------------
(* Claims about process-files *)

\* Whether readExcelFile reads the file under the options of the batch
Reads(file) == ~ReadExcelFile(file, call.args[2], NoDate).threw

\* C9: when reading one file of a batch fails, the error is reported and
\* the remaining files are still processed and their results returned.
C9_FailureDoesNotStopBatch ==
    (call.op = "process-files" /\ response.state = "returned") =>
        \A i \in 1..Len(call.args[1]) :
            IF Reads(call.args[1][i])
            THEN \E k \in 1..Len(response.data) :
                    response.data[k].mallName = call.args[1][i].name
            ELSE response.error # ""

-----------------------------------------------------------------------------
(* Claims about the options of readExcelFile *)

\* The options lack a field their mode requires
LacksField(opts) ==
    \/ opts.dateColumn = <<>>
    \/ /\ ~opts.useTaxTypeClassification
       /\ (opts.taxExemptColumn = <<>> \/ opts.taxableColumn = <<>>)
    \/ /\ opts.useTaxTypeClassification
       /\ \/ opts.taxTypeColumn = <<>>
          \/ ~opts.useMultiColumnSum /\ opts.amountColumn = <<>>
          \/ opts.useMultiColumnSum /\ opts.amountColumns = <<>>

ConfigurationErrors ==
    { "date column not specified", "tax type column not specified",
      "no amount column specified for multi-column sum",
      "amount column not specified",
      "tax-exempt and taxable columns not both specified" }

\* C13 (as claimed): readExcelFile rejects with a configuration error every
\* run whose options lack a field required by the active mode, whatever
\* the rows of the sheet it reads.
C13_LackingOptionsRejected ==
    (ReadCall /\ ReachedRows /\ LacksField(call.args[2])) =>
        /\ call.ret.threw
        /\ call.ret.error \in ConfigurationErrors

\* The fields the mode requires, by role, with the names configured
RequiredFields(opts) ==
    {Named("date", opts.dateColumn)}
    \cup
    (IF ~opts.useTaxTypeClassification
     THEN {Named("taxExempt", opts.taxExemptColumn),
           Named("taxable", opts.taxableColumn)}
     ELSE {Named("taxType", opts.taxTypeColumn)}
          \cup
          (IF ~opts.useMultiColumnSum THEN {Named("amount", opts.amountColumn)}
           ELSE IF opts.amountColumns = <<>> THEN {Named("amount", <<>>)}
           ELSE {Named("amount", opts.amountColumns[i]) :
                    i \in 1..Len(opts.amountColumns)}))

\* The required fields that are unset or match no available column
MissingFields(opts, availableColumns) ==
    {f \in RequiredFields(opts) :
        f.name = <<>> \/ findMatchingColumn(f.name, availableColumns) = <<>>}

\* C14 (as claimed): when more than one required column is unset or cannot
\* be matched to an available column, the single error raised names every
\* one of them.
C14_EveryMissingColumnNamed ==
    (/\ ReadCall
     /\ call.ret.data # <<>>
     /\ Cardinality(MissingFields(call.args[2], ObjectKeys(call.ret.data[1]))) > 1)
    =>
        /\ call.ret.threw
        /\ \A f \in MissingFields(call.args[2], ObjectKeys(call.ret.data[1])) :
              \E i \in 1..Len(call.ret.named) : call.ret.named[i] = f

\* C15 (as claimed): readExcelFile fails with an error when the requested
\* sheet does not exist, when the sheet has no rows, or when the header
\* row index is greater than or equal to the number of rows.
C15_StructuralErrorsThrown ==
    (/\ ReadCall
     /\ \/ call.args[2].sheetName \notin {<<>>, call.args[1].sheetName}
        \/ call.args[1].rows = <<>>
        \/ call.args[2].headerRow >= Len(call.args[1].rows))
    =>
        /\ call.ret.threw
        /\ call.ret.records = <<>>

\* The available column a configured name resolves to, '' for none: the
\* name itself when a column has it; else the first column that is equal
\* after normalising both; else, for a name with the settlement amount and
\* the tax-exempt token, the first column whose normalised name has both
Resolved(name, availableColumns) ==
    LET Is(col) == col = name
        Same(col) == normalizeHeader(col) = normalizeHeader(name)
        Both(col) == /\ Includes(normalizeHeader(col), HwakJeongJeongSanDaeSangGeumAek)
                     /\ Includes(normalizeHeader(col), MyeonSe)
    IN IF SelectSeq(availableColumns, Is) # <<>> THEN name
       ELSE IF SelectSeq(availableColumns, Same) # <<>>
       THEN SelectSeq(availableColumns, Same)[1]
       ELSE IF Both(name) /\ SelectSeq(availableColumns, Both) # <<>>
       THEN SelectSeq(availableColumns, Both)[1]
       ELSE <<>>

\* The field of the options after the call is the column the name resolved to
ResolvedInOptions(opts, after, availableColumns) ==
    /\ after.dateColumn = Resolved(opts.dateColumn, availableColumns)
    /\ IF ~opts.useTaxTypeClassification
       THEN /\ after.taxExemptColumn = Resolved(opts.taxExemptColumn, availableColumns)
            /\ after.taxableColumn = Resolved(opts.taxableColumn, availableColumns)
       ELSE /\ after.taxTypeColumn = Resolved(opts.taxTypeColumn, availableColumns)
            /\ IF ~opts.useMultiColumnSum
               THEN after.amountColumn = Resolved(opts.amountColumn, availableColumns)
               ELSE after.amountColumns =
                       [i \in 1..Len(opts.amountColumns) |->
                           Resolved(opts.amountColumns[i], availableColumns)]

\* C16: a configured column name is resolved by the first strategy that
\* hits (exact, normalised, settlement pattern); when every name resolves,
\* the rows are parsed under the resolved names, and a name no strategy
\* matches is reported missing.
C16_FirstStrategyThatHits ==
    (ReadCall /\ call.ret.data # <<>> /\ ~LacksField(call.args[2])) =>
        LET opts == call.args[2]
            cols == ObjectKeys(call.ret.data[1])
            unresolved == {f \in RequiredFields(opts) : Resolved(f.name, cols) = <<>>}
        IN IF unresolved = {}
           THEN /\ ~call.ret.threw
                /\ ResolvedInOptions(opts, call.ret.options, cols)
           ELSE /\ call.ret.threw
                /\ \A f \in unresolved :
                      \E i \in 1..Len(call.ret.named) : call.ret.named[i] = f

\* C16 witness: the sheet has a column " 날짜" before the column "날짜"; the
\* configured "날짜" resolved to itself, and the record has the date of
\* that column
C16_Witness ==
    /\ ReadCall
    /\ ~call.ret.threw
    /\ call.args[2].dateColumn = NalJja
    /\ call.ret.options.dateColumn = NalJja
    /\ call.ret.data # <<>>
    /\ ObjectKeys(call.ret.data[1])[1] # NalJja
    /\ normalizeHeader(ObjectKeys(call.ret.data[1])[1]) = NalJja
    /\ Len(call.ret.records) = 1
    /\ call.ret.records[1].month = 3

-----------------------------------------------------------------------------
(* Claims about day-only dates *)

\* The first cell of one of the first five rows holds "<y>년 <m>월"
HasTitle(rows, y, m) ==
    \E i \in 1..Min(5, Len(rows)) :
        /\ rows[i] # <<>>
        /\ rows[i][1].t = "str"
        /\ \E sp \in {<<>>, <<" ">>} :
              Includes(rows[i][1].s,
                       NatDigits(y) \o <<"nyeon">> \o sp \o NatDigits(m) \o <<"wol">>)

TitleMonths(rows) ==
    {ym \in (1900..1900 \cup 2023..2024 \cup 2100..2100) \X (1..12) :
        HasTitle(rows, ym[1], ym[2])}

\* The day N of a date cell "N일", 0 for any other cell
DayOfCell(cell) ==
    IF /\ cell.t = "str"
       /\ \E n \in 1..31 : Trim(cell.s) = DayOnly(n)
    THEN CHOOSE n \in 1..31 : Trim(cell.s) = DayOnly(n)
    ELSE 0

\* The (year, month) a data row yields: for a day-only date cell the month
\* of the title when the day is one of that month, none without a title;
\* for another date cell what the cell parses to by itself
ExpectedMonth(row, dateColumn, rows) ==
    LET cell == Get(row, dateColumn)
        n == DayOfCell(cell)
    IN IF n = 0
       THEN IF ParseDate(cell, NoDate).ok /\ ~IsSummaryRow(cell)
            THEN << <<ParseDate(cell, NoDate).y, ParseDate(cell, NoDate).m>> >>
            ELSE <<>>
       ELSE IF \E ym \in TitleMonths(rows) : n <= DaysInMonth(ym[1], ym[2])
            THEN << CHOOSE ym \in TitleMonths(rows) : TRUE >>
            ELSE <<>>

RECURSIVE ExpectedMonths(_, _, _)
ExpectedMonths(data, dateColumn, rows) ==
    IF data = <<>> THEN <<>>
    ELSE ExpectedMonth(Head(data), dateColumn, rows)
            \o ExpectedMonths(Tail(data), dateColumn, rows)

-----------------------------------------------------------------------------
(* parseAmount called once on a cell: a number, null, a value that is      *)
(* neither number nor string (a boolean, a Date), or a text of up to       *)
(* MaxAmountLen characters: digits, the won sign, "$", ",", a space, "-"   *)
(* and the syllable won of "1,000원".                                      *)

MaxAmountLen == 3

AmountChars == {"0", "1", "won", "$", ",", " ", "-", "weon"}

OtherValue == [t |-> "other", n |-> 0, s |-> <<>>]

AmountCells ==
    {Num(-5), Num(0), Num(100), Null, OtherValue}
    \cup {Str(s) : s \in RowSeqs(AmountChars, 0, MaxAmountLen)}

CallParseAmount(value) ==
    /\ call.op = "none"
    /\ call' = [op |-> "parseAmount", args |-> <<value>>, ret |-> ParseAmount(value)]
    /\ UNCHANGED <<sikbomDateContext, options, batch, results, response>>

NextAmount == \E value \in AmountCells : CallParseAmount(value)

SpecAmount == Idle /\ [][NextAmount]_vars

-----------------------------------------------------------------------------
(* Claims about parseAmount *)

AmountCall == call.op = "parseAmount"

\* The text without the won sign, "$", commas and whitespace
Stripped(s) == SelectSeq(s, LAMBDA c : c \notin {"won", "$", ",", " ", "nl"})

\* The text without its sign
Unsign(s) == IF s # <<>> /\ Head(s) \in {"-", "+"} THEN Tail(s) ELSE s

\* The number of digits the text starts with
LeadingDigits(s) ==
    CHOOSE k \in 0..Len(s) :
        /\ \A i \in 1..k : s[i] \in Digit
        /\ k < Len(s) => s[k + 1] \notin Digit

\* The value of a signed run of digits
SignedValue(s, k) ==
    IF s # <<>> /\ Head(s) = "-"
    THEN 0 - DigitsValue(SubSeq(Unsign(s), 1, k))
    ELSE DigitsValue(SubSeq(Unsign(s), 1, k))

\* C18 (as claimed): parseAmount returns a numeric cell unchanged; for a
\* string it returns the decimal value of what remains without won sign,
\* "$", commas and whitespace, or 0 when what remains is not a number; for
\* any other value it returns 0.
C18_AmountOfWholeText ==
    AmountCall =>
        LET value == call.args[1]
            rest == Stripped(value.s)
        IN call.ret =
             IF value.t = "num" THEN value.n
             ELSE IF value.t = "str"
                     /\ Unsign(rest) # <<>>
                     /\ LeadingDigits(Unsign(rest)) = Len(Unsign(rest))
             THEN SignedValue(rest, Len(Unsign(rest)))
             ELSE 0

\* C18 (amended): parseAmount returns a numeric cell unchanged; for a
\* string it returns the value of the numeral that what remains without
\* won sign, "$", commas and whitespace starts with, whatever follows the
\* numeral, or 0 when it starts with none; for any other value it returns
\* 0.
C18_AmountOfLeadingNumeral ==
    AmountCall =>
        LET value == call.args[1]
            rest == Stripped(value.s)
        IN call.ret =
             IF value.t = "num" THEN value.n
             ELSE IF value.t = "str" /\ LeadingDigits(Unsign(rest)) > 0
             THEN SignedValue(rest, LeadingDigits(Unsign(rest)))
             ELSE 0

\* C18 witness: "10원" came out as 10
C18_Witness ==
    /\ AmountCall
    /\ call.args[1] = Str(<<"1", "0", "weon">>)
    /\ call.ret = 10

-----------------------------------------------------------------------------
(* processMergedCells called on a grid of up to MaxGridRows rows of up to  *)
(* MaxGridCols cells (absent, '', a text, the number 0) with a list of up  *)
(* to MaxMerges regions of two cells or more, overlapping or not, and      *)
(* called once more on the grid it returned, with the same regions.        *)

MaxGridRows == 2

MaxGridCols == 2

MaxMerges == 2

GridCells == {Null, Str(<<>>), Str(<<"a">>), Num(0)}

\* The grids of one row or more, up to maxRows, of up to maxCols cells
Grids(maxRows, maxCols) == RowSeqs(RowSeqs(GridCells, 0, maxCols), 1, maxRows)

Region(sr, sc, er, ec) == [sr |-> sr, sc |-> sc, er |-> er, ec |-> ec]

Regions ==
    {Region(sr, sc, er, ec) :
        sr \in 0..(MaxGridRows - 1), sc \in 0..(MaxGridCols - 1),
        er \in 0..(MaxGridRows - 1), ec \in 0..(MaxGridCols - 1)}

\* The lists of up to maxMerges regions of two cells or more
MergeLists(maxMerges) ==
    RowSeqs({m \in Regions : m.sr <= m.er /\ m.sc <= m.ec /\ (m.sr < m.er \/ m.sc < m.ec)},
            0, maxMerges)

CallProcessMergedCells(data, merges) ==
    /\ call.op = "none"
    /\ call' = [op |-> "processMergedCells", args |-> <<data, merges>>,
                ret |-> ProcessMergedCells(data, merges)]
    /\ UNCHANGED <<sikbomDateContext, options, batch, results, response>>

\* processMergedCells(processMergedCells(data, merges), merges)
ResolveAgain ==
    /\ call.op = "processMergedCells"
    /\ call' = [op |-> "processMergedCellsAgain", args |-> <<call.ret, call.args[2]>>,
                ret |-> ProcessMergedCells(call.ret, call.args[2])]
    /\ UNCHANGED <<sikbomDateContext, options, batch, results, response>>

NextMerge ==
    \/ \E data \in Grids(MaxGridRows, MaxGridCols), merges \in MergeLists(MaxMerges) :
            CallProcessMergedCells(data, merges)
    \/ ResolveAgain

SpecMerge == Idle /\ [][NextMerge]_vars

-----------------------------------------------------------------------------
(* Claims about processMergedCells *)

MergeCall == call.op = "processMergedCells"

MergeAgain == call.op = "processMergedCellsAgain"

Overlap(m, n) ==
    /\ m.sr <= n.er /\ n.sr <= m.er
    /\ m.sc <= n.ec /\ n.sc <= m.ec

NonOverlapping(merges) ==
    \A i, j \in 1..Len(merges) : i < j => ~Overlap(merges[i], merges[j])

\* A cell that is absent or empty
EmptyCell(cell) == cell = Null \/ cell = Str(<<>>)

\* The regions of the list that hold the cell (r, c)
RegionsOf(merges, r, c) ==
    {i \in 1..Len(merges) :
        /\ merges[i].sr <= r /\ r <= merges[i].er
        /\ merges[i].sc <= c /\ c <= merges[i].ec}

\* C19: for every grid and every set of non-overlapping merge regions, the
\* grid that processMergedCells returns holds the value of the region's
\* origin cell in each cell of a region that was absent or empty, and the
\* value it had before in every cell that held an explicit value, a
\* numeric 0 included.
C19_OnlyEmptyCellsFilled ==
    (MergeCall /\ NonOverlapping(call.args[2])) =>
        LET data == call.args[1]
            merges == call.args[2]
        IN \A r \in 0..(Len(data) - 1), c \in 0..(MaxGridCols - 1) :
              LET before == Cell(RowAt(data, r), c)
                  after == Cell(RowAt(call.ret, r), c)
              IN IF EmptyCell(before) /\ RegionsOf(merges, r, c) # {}
                 THEN \A i \in RegionsOf(merges, r, c) :
                        after = Cell(RowAt(data, merges[i].sr), merges[i].sc)
                 ELSE after = before

\* C20 (as claimed): for every grid and every list of merge regions,
\* processMergedCells applied with the same regions to the grid it returned
\* returns that grid.
C20_ResolutionIdempotent ==
    MergeAgain => call.ret = call.args[1]

\* C20 (amended): for every grid and every list of merge regions of which
\* no two overlap, processMergedCells applied with the same regions to the
\* grid it returned returns that grid.
C20_IdempotentWithoutOverlap ==
    (MergeAgain /\ NonOverlapping(call.args[2])) => call.ret = call.args[1]

\* C20 witness: the second resolution of a grid whose region of two rows
\* and two columns was filled from its origin by the first
C20_Witness ==
    /\ MergeAgain
    /\ call.args[2] = <<Region(0, 0, 1, 1)>>
    /\ call.args[1] = <<<<Str(<<"a">>), Str(<<"a">>)>>, <<Str(<<"a">>), Str(<<"a">>)>>>>
    /\ call.ret = call.args[1]

-----------------------------------------------------------------------------
(* detectMultiRowHeaders called on a grid of up to MaxHeadRows rows (main  *)
(* headers of the repeating-subtype dialect, their tax-type sub-headers, a *)
(* parent row and a child row of the parent/child dialect, a plain header, *)
(* a data row, an empty row) and a primary row of the grid, as             *)
(* detectHeaderRow calls it with the row of its best candidate.            *)

MaxHeadRows == 3

HeadRowKinds ==
    { <<Str(NalJja), Str(JuMunGeumAek), Null, Str(KuPon), Null>>,
      <<Null, Str(GwaSe), Str(MyeonSe), Str(GwaSe), Str(MyeonSe)>>,
      <<Str(NalJja), Str(GyeolJeGeumAek), Null>>,
      <<Null, Str(GwaSeGeumAek), Str(MyeonSeGeumAek)>>,
      <<Str(NalJja), Str(GeumAek)>>,
      <<Str(IsoString(2024, 1, 15)), Num(100)>>,
      <<>> }

CallDetectMultiRowHeaders(data, primaryHeaderRow) ==
    /\ call.op = "none"
    /\ call' = [op |-> "detectMultiRowHeaders", args |-> <<data, primaryHeaderRow>>,
                ret |-> DetectMultiRowHeaders(data, primaryHeaderRow)]
    /\ UNCHANGED <<sikbomDateContext, options, batch, results, response>>

NextMultiRow ==
    \E data \in RowSeqs(HeadRowKinds, 1, MaxHeadRows) :
        \E primaryHeaderRow \in 0..(Len(data) - 1) :
            CallDetectMultiRowHeaders(data, primaryHeaderRow)

SpecMultiRow == Idle /\ [][NextMultiRow]_vars

-----------------------------------------------------------------------------
(* Claims about detectMultiRowHeaders *)

MultiRowCall == call.op = "detectMultiRowHeaders"

\* The repeating-subtype dialect: the row above p holds two main headers or
\* more and row p four tax-type sub-headers or more
RepeatingSubtype(data, p) ==
    /\ p >= 1
    /\ Cardinality({c \in 1..Len(data[p]) : IsSikbomMainHeader(data[p][c])}) >= 2
    /\ Cardinality({c \in 1..Len(data[p + 1]) : IsSikbomSubHeader(data[p + 1][c])}) >= 4

\* C21: for every grid and primary row p, detectMultiRowHeaders returns
\* headerRows = [p] exactly when isMultiRow is false, and otherwise two
\* adjacent rows of the grid: [p - 1, p] when the repeating-subtype dialect
\* is detected, else [p, p + 1]; never more than two rows.
C21_OneRowOrTwoAdjacent ==
    MultiRowCall =>
        LET data == call.args[1]
            p == call.args[2]
            rows == call.ret.headerRows
        IN /\ Len(rows) <= 2
           /\ (rows = <<p>>) <=> ~call.ret.isMultiRow
           /\ call.ret.isMultiRow =>
                /\ rows = IF RepeatingSubtype(data, p) THEN <<p - 1, p>>
                          ELSE <<p, p + 1>>
                /\ \A i \in 1..Len(rows) : rows[i] >= 0 /\ rows[i] < Len(data)

\* C21 witness: the sub-header row of the repeating-subtype dialect as
\* primary row, with the main headers above it
C21_Witness ==
    /\ MultiRowCall
    /\ call.args[2] = 1
    /\ RepeatingSubtype(call.args[1], 1)
    /\ call.ret.isMultiRow
    /\ call.ret.headerRows = <<0, 1>>

-----------------------------------------------------------------------------
(* Claims about the choice and the score of detectHeaderRow *)

\* The rows that detectHeaderRow looks at, counted from 0
CheckedRows(data) == 0..(Min(10, Len(data)) - 1)

\* C22: detectHeaderRow returns, among the first 10 rows, the row with the
\* highest score, the lowest row index winning among rows of equal score,
\* with confidence = min(100, that score); when no row scores above 0 it
\* returns row 0 with confidence 30.
C22_BestOfFirstTenRows ==
    DetectCall =>
        LET data == call.args[1]
            scores == [i \in CheckedRows(data) |-> RowScore(data, i)]
        IN IF \A i \in CheckedRows(data) : scores[i] <= 0
           THEN call.ret.headerRow = 0 /\ call.ret.confidence = 30
           ELSE /\ call.ret.headerRow \in CheckedRows(data)
                /\ \A i \in CheckedRows(data) :
                      /\ scores[i] <= scores[call.ret.headerRow]
                      /\ scores[i] = scores[call.ret.headerRow]
                            => call.ret.headerRow <= i
                /\ call.ret.confidence = Min(100, scores[call.ret.headerRow])

\* C22 witness: the first of two rows of equal score was returned
C22_Witness ==
    /\ DetectCall
    /\ \E i \in CheckedRows(call.args[1]) :
          /\ i > call.ret.headerRow
          /\ RowScore(call.args[1], i) = RowScore(call.args[1], call.ret.headerRow)
    /\ call.ret.confidence = RowScore(call.args[1], call.ret.headerRow)

\* The score of row i (counted from 0) as the sum of the six terms, the
\* fifth given to row 0 and to a row under an empty row
SumOfTerms(data, i, row, cells) ==
      (IF 2 * Len(cells) > Len(row) THEN 20 ELSE 0)
    + 15 * Cardinality({c \in 1..Len(cells) : HasHeaderKeyword(cells[c])})
    + (IF HighTextRatio(cells) THEN 25 ELSE 0)
    + (IF HighTextRatio(cells) /\ i + 2 <= Len(data) /\ NumericRow(data[i + 2])
       THEN 30 ELSE 0)
    + (IF i = 0 \/ \A c \in 1..Len(data[i]) : ~NonBlank(data[i][c]) THEN 10 ELSE 0)
    + (IF \A c \in 1..Len(cells) : ~HasPunctuation(cells[c]) THEN 5 ELSE 0)

\* The rows among the first 10 with a non-empty cell
ScoredRows(data) ==
    {i \in CheckedRows(data) : \E c \in 1..Len(data[i + 1]) : NonBlank(data[i + 1][c])}

\* C23: for each of the first 10 rows that has a non-empty cell, the score
\* is the sum of 20 (non-empty ratio above 0.5), 15 per cell with a listed
\* keyword, 25 (more than 0.7 of the non-empty cells are text-like), 30 (a
\* text-like row over a row of which more than half of the non-null cells
\* are numbers), 10 (the row is row 0 or the row before is empty) and 5 (no
\* cell with disallowed punctuation).
C23_ScoreIsSumOfTerms ==
    DetectCall =>
        \A i \in ScoredRows(call.args[1]) :
            RowScore(call.args[1], i)
                = SumOfTerms(call.args[1], i, call.args[1][i + 1],
                             SelectSeq(call.args[1][i + 1], NonBlank))

-----------------------------------------------------------------------------
(* Claims about the parent/child case of combineMultiRowHeaders *)

\* The call is on two header rows that are not a flat two-row layout
ParentChildCall ==
    /\ CombineCall
    /\ Len(call.args[2]) = 2
    /\ ~IsSimpleStructure(RowAt(call.args[1], 1),
                          Max(LastMeaningfulCol(RowAt(call.args[1], 0)),
                              LastMeaningfulCol(RowAt(call.args[1], 1))) + 1)

\* The parent text of column c (counted from 1): its own, or that of the
\* column to its left when that column's child contains '과세' and its own
\* child contains '면세'
ParentOf(parents, children, c) ==
    IF CellText(Cell(parents, c - 1)) # <<>> THEN CellText(Cell(parents, c - 1))
    ELSE IF /\ c > 1
            /\ Includes(CellText(Cell(children, c - 2)), GwaSe)
            /\ Includes(CellText(Cell(children, c - 1)), MyeonSe)
         THEN CellText(Cell(parents, c - 2))
         ELSE <<>>

\* The name of column c: "{parent} > {child}", the one text there is, or
\* <<>> for no name
NameOf(parent, child) ==
    IF parent # <<>> /\ child # <<>> THEN parent \o <<" ", ">", " ">> \o child
    ELSE IF parent # <<>> THEN parent
    ELSE child

\* The names of the columns 1..n that have one
RECURSIVE NamesOf(_, _, _)
NamesOf(parents, children, n) ==
    IF n = 0 THEN <<>>
    ELSE LET name == NameOf(ParentOf(parents, children, n),
                            CellText(Cell(children, n - 1)))
         IN IF name = <<>> THEN NamesOf(parents, children, n - 1)
            ELSE Append(NamesOf(parents, children, n - 1), name)

\* C24: in the parent/child case of combineMultiRowHeaders a column with
\* text in both header rows is named "{parent} > {child}", a column with
\* text in one row by that text, a column with text in neither yields no
\* name; a column whose own parent cell is empty takes the parent text of
\* the column to its left only when that column's child contains '과세' and
\* its own child contains '면세', and otherwise keeps its bare child name.
\* (The list returned holds each name once, at its first column.)
C24_ParentChildNames ==
    ParentChildCall =>
        call.ret = FirstAppearances(<<>>,
                      NamesOf(RowAt(call.args[1], 0), RowAt(call.args[1], 1),
                              Max(LastMeaningfulCol(RowAt(call.args[1], 0)),
                                  LastMeaningfulCol(RowAt(call.args[1], 1))) + 1))

-----------------------------------------------------------------------------
(* Two readExcelFile calls in flight on the one ExcelService of main.ts.   *)
(* A call runs on the single JavaScript thread until it reaches an await   *)
(* or returns; another call runs only while no call holds the thread.      *)
(* call.ret holds the two frames, the call that holds the thread (0: none) *)
(* and the order in which the calls took their steps.                      *)

\* The position of a call that has not been entered
Frame(file, opts) ==
    [file |-> file, opts |-> opts, pc |-> "called", detection |-> GivenHeaderRow(0),
     outcome |-> Outcome("", <<>>, <<>>, FALSE, opts, NoDate)]

FlightFiles ==
    { File("jan", << <<Str(TitleOf(2024, 1))>>, TraditionalHeader,
                     <<Str(DayOnly(5)), Num(70), Num(30)>> >>, <<>>),
      File("feb", << <<Str(TitleOf(2023, 2))>>, TraditionalHeader,
                     <<Str(DayOnly(28)), Num(70), Num(30)>>,
                     <<Str(DayOnly(29)), Num(100), Num(50)>> >>, <<>>),
      File("days", <<TraditionalHeader, <<Str(DayOnly(5)), Num(70), Num(30)>>,
                     <<Str(IsoString(2024, 3, 5)), Num(100), Num(50)>> >>, <<>>) }

\* options.headerRow undefined, or the row under a title
FlightOptions == {TraditionalOptions, [TraditionalOptions EXCEPT !.headerRow = 1]}

\* The thread if an await stood between the extraction of the context and
\* the parsing of the rows
HeldAfterWithAwait(pc, i) ==
    IF pc \in {"await detectHeaderRow", "extracted", "returned"} THEN 0 ELSE i

\* The call that holds the thread once call i has reached pc: none at the
\* await of line 23 and after the return, call i anywhere else
HeldAfter(pc, i) == IF pc \in {"await detectHeaderRow", "returned"} THEN 0 ELSE i

InFlight == call.op = "readExcelFile in flight"

\* Call i may take a step: the thread is free or its own
MayRun(i) == InFlight /\ call.ret.turn \in {0, i}

\* Call i has moved to frame
Moved(i, frame) ==
    call' = [call EXCEPT !.ret =
                [frames |-> [k \in 1..2 |-> IF k = i THEN frame ELSE call.ret.frames[k]],
                 turn |-> HeldAfter(frame.pc, i),
                 order |-> Append(call.ret.order, <<i, frame.pc>>)]]

\* Two handlers call readExcelFile, each with an options object of its own
CallTwice(file1, opts1, file2, opts2) ==
    /\ call.op = "none"
    /\ call' = [op |-> "readExcelFile in flight", args |-> <<file1, file2>>,
                ret |-> [frames |-> <<Frame(file1, opts1), Frame(file2, opts2)>>,
                         turn |-> 0, order |-> <<>>]]
    /\ UNCHANGED <<sikbomDateContext, options, batch, results, response>>

\* Lines 9-35 of call i: the workbook is read; with options.headerRow
\* undefined detectHeaderRow runs and the call waits for its promise
Enter(i) ==
    /\ MayRun(i)
    /\ call.ret.frames[i].pc = "called"
    /\ LET frame == call.ret.frames[i]
       IN IF \/ ~frame.file.readable
             \/ frame.opts.sheetName # <<>> /\ frame.opts.sheetName # frame.file.sheetName
             \/ frame.opts.headerRow = -1 /\ frame.file.rows = <<>>
          THEN Moved(i, [frame EXCEPT
                            !.pc = "returned",
                            !.outcome = ReadExcelFile(frame.file, frame.opts,
                                                      sikbomDateContext)])
          ELSE IF frame.opts.headerRow = -1
          THEN Moved(i, [frame EXCEPT !.pc = "await detectHeaderRow",
                                      !.detection = DetectHeaderRow(frame.file.rows)])
          ELSE Moved(i, [frame EXCEPT !.pc = "resumed",
                                      !.detection = GivenHeaderRow(frame.opts.headerRow)])
    /\ UNCHANGED <<sikbomDateContext, options, batch, results, response>>

\* The promise of detectHeaderRow is settled and call i goes on after line 23
Resume(i) ==
    /\ MayRun(i)
    /\ call.ret.frames[i].pc = "await detectHeaderRow"
    /\ Moved(i, [call.ret.frames[i] EXCEPT !.pc = "resumed"])
    /\ UNCHANGED <<sikbomDateContext, options, batch, results, response>>

\* Lines 42-45 and 79-82 of call i: this.extractSikbomDateContext(rawData)
Extract(i) ==
    /\ MayRun(i)
    /\ call.ret.frames[i].pc = "resumed"
    /\ sikbomDateContext' =
           ExtractSikbomDateContext(sikbomDateContext,
                                    FormattedRows(call.ret.frames[i].file.rows))
    /\ Moved(i, [call.ret.frames[i] EXCEPT !.pc = "extracted"])
    /\ UNCHANGED <<options, batch, results, response>>

\* readExcelFile after the extraction, under the context the service holds
ParsedUnder(rawData, merges, detection, opts, ctx) ==
    Extracted(RowObjects(IF merges # <<>>
                         THEN ProcessMergedCells(rawData, merges)
                         ELSE rawData,
                         detection),
              /\ UsesCombinedHeader(detection)
              /\ Len(rawData) > SeqMax(detection.headerRows),
              opts, ctx)

\* Lines 47-268 of call i: the row objects are built and parseMonthlyData
\* resolves the dates with getSikbomDateContext()
Parse(i) ==
    /\ MayRun(i)
    /\ call.ret.frames[i].pc = "extracted"
    /\ LET frame == call.ret.frames[i]
       IN Moved(i, [frame EXCEPT
                       !.pc = "returned",
                       !.outcome = ParsedUnder(FormattedRows(frame.file.rows),
                                               frame.file.merges, frame.detection,
                                               frame.opts, sikbomDateContext)])
    /\ UNCHANGED <<sikbomDateContext, options, batch, results, response>>

NextFlight ==
    \/ \E file1 \in FlightFiles, file2 \in FlightFiles,
          opts1 \in FlightOptions, opts2 \in FlightOptions :
          CallTwice(file1, opts1, file2, opts2)
    \/ \E i \in 1..2 : Enter(i)
    \/ \E i \in 1..2 : Resume(i)
    \/ \E i \in 1..2 : Extract(i)
    \/ \E i \in 1..2 : Parse(i)

SpecFlight == Idle /\ [][NextFlight]_vars

\* The context of a file's own title rows
OwnContext(file) == FoundContext(FormattedRows(file.rows))

\* C25: when two readExcelFile calls on one service interleave at their
\* awaits, the service holds a call's own context from the call's extraction
\* to the end of its row parsing, and the call returns the records and the
\* error it returns when it runs alone
C25_OwnContextUntilParsed ==
    InFlight =>
        \A i \in 1..2 :
            LET frame == call.ret.frames[i]
            IN /\ frame.pc = "extracted" =>
                      sikbomDateContext = OwnContext(frame.file)
               /\ frame.pc = "returned" =>
                      /\ frame.outcome.records
                             = ReadExcelFile(frame.file, frame.opts, NoDate).records
                      /\ frame.outcome.error
                             = ReadExcelFile(frame.file, frame.opts, NoDate).error

\* Both calls have returned records of day-only rows; the files have
\* different titles, and the second call was entered while the first
\* waited for detectHeaderRow and returned before the first went on
C25_Witness ==
    /\ InFlight
    /\ call.ret.frames[1].pc = "returned"
    /\ call.ret.frames[2].pc = "returned"
    /\ call.ret.frames[1].outcome.records # <<>>
    /\ call.ret.frames[2].outcome.records # <<>>
    /\ OwnContext(call.args[1]) # OwnContext(call.args[2])
    /\ OwnContext(call.args[1]).ok
    /\ OwnContext(call.args[2]).ok
    /\ Len(call.ret.order) = 7
    /\ call.ret.order[1] = <<1, "await detectHeaderRow">>
    /\ call.ret.order[4] = <<2, "returned">>
    /\ call.ret.order[7] = <<1, "returned">>

-----------------------------------------------------------------------------
(* getColumnHeaders as the get-excel-columns handler of main.ts calls it:  *)
(* without options, so the header row is detected.  The rows are those of  *)
(* sheet_to_json(worksheet, {header: 1}), the raw values.                  *)

\* What a call of getColumnHeaders gave: the error it threw ("" when it
\* returned) and the headers it returned
Columns(error, headers) == [threw |-> error # "", error |-> error, headers |-> headers]

\* The callback of merges.forEach for a merge that includes the header row
RECURSIVE FillHeaders(_, _, _, _)
FillHeaders(headers, data, headerRow, merges) ==
    IF merges = <<>> THEN headers
    ELSE IF Head(merges).sr <= headerRow /\ Head(merges).er >= headerRow
    THEN FillHeaders(FillRow(headers, Head(merges).sc, Head(merges).ec,
                             IF Head(merges).sr = headerRow
                             THEN Cell(headers, Head(merges).sc)
                             ELSE Cell(RowAt(data, Head(merges).sr), Head(merges).sc)),
                     data, headerRow, Tail(merges))
    ELSE FillHeaders(headers, data, headerRow, Tail(merges))

\* getColumnHeaders from the detection on
DetectedColumns(data, merges, detection) ==
    IF detection.isMultiRowHeader
    THEN Columns("", AsHeaders(CombineMultiRowHeaders(data, detection.headerRows)))
    ELSE IF detection.headerRow >= Len(data)
    THEN Columns("header row exceeds data length", <<>>)
    ELSE Columns("", SelectSeq(FillHeaders(RowAt(data, detection.headerRow), data,
                                           detection.headerRow, merges),
                               NonBlank))

\* getColumnHeaders(filePath)
GetColumnHeaders(file) ==
    IF ~file.readable THEN Columns("cannot read file", <<>>)
    ELSE IF file.rows = <<>> THEN Columns("No data found in Excel file", <<>>)
    ELSE DetectedColumns(file.rows, file.merges, DetectHeaderRow(file.rows))

MaxColumnMerges == 2
MaxMergeRow == 1
MaxMergeCol == 2

\* The regions of two cells or more within rows 0..maxRow, columns 0..maxCol
HeaderRegions(maxRow, maxCol) ==
    {Region(sr, sc, er, ec) :
        sr \in 0..maxRow, sc \in 0..maxCol, er \in 0..maxRow, ec \in 0..maxCol}
    \ {m \in [sr : 0..maxRow, sc : 0..maxCol, er : 0..maxRow, ec : 0..maxCol] :
        m.sr > m.er \/ m.sc > m.ec \/ (m.sr = m.er /\ m.sc = m.ec)}

\* A sheet holds a value in the first cell of a merge region only
Merged(rows, merges) ==
    [r \in 1..Len(rows) |->
        [c \in 1..Len(rows[r]) |->
            IF \E i \in 1..Len(merges) :
                  /\ merges[i].sr <= r - 1 /\ r - 1 <= merges[i].er
                  /\ merges[i].sc <= c - 1 /\ c - 1 <= merges[i].ec
                  /\ (merges[i].sr # r - 1 \/ merges[i].sc # c - 1)
            THEN Null ELSE rows[r][c]]]

ColumnSheets ==
    { TwoRowRows, SpacedTwoRowRows,
      <<TraditionalHeader, <<Str(IsoString(2024, 3, 5)), Num(100), Num(50)>> >> }

\* The sheets with up to maxMerges merge regions, of which no two overlap
ColumnFiles(maxMerges, maxRow, maxCol) ==
    {File("sheet", Merged(rows, merges), merges) :
        rows \in ColumnSheets,
        merges \in {l \in RowSeqs(HeaderRegions(maxRow, maxCol), 0, maxMerges) :
                       \A i \in 1..Len(l), j \in 1..Len(l) :
                           i < j => ~Overlap(l[i], l[j])}}

CallGetColumnHeaders(file) ==
    /\ call.op = "none"
    /\ call' = [op |-> "getColumnHeaders", args |-> <<file>>,
                ret |-> GetColumnHeaders(file)]
    /\ UNCHANGED <<sikbomDateContext, options, batch, results, response>>

NextColumns ==
    \E file \in ColumnFiles(MaxColumnMerges, MaxMergeRow, MaxMergeCol) :
        CallGetColumnHeaders(file)

SpecColumns == Idle /\ [][NextColumns]_vars

ColumnsCall == call.op = "getColumnHeaders" /\ ~call.ret.threw

\* The row objects readExcelFile builds for the sheet with the header row
\* detected
RowObjectsOf(file) == ReadExcelFile(file, TraditionalOptions, NoDate).data

\* C26: for a sheet read with header auto-detection, every column name that
\* getColumnHeaders returns is a key of the row objects readExcelFile builds,
\* also for sheets with merge regions and two-row headers
C26_ColumnsAreKeys ==
    ColumnsCall /\ RowObjectsOf(call.args[1]) # <<>> =>
        \A i \in 1..Len(call.ret.headers) :
            \E k \in 1..Len(RowObjectsOf(call.args[1])[1]) :
                RowObjectsOf(call.args[1])[1][k].key
                    = ValueToString(call.ret.headers[i])

-----------------------------------------------------------------------------
(* Claims about the two totals of parseMonthlyDataWithTaxType *)

\* The tax type of the row is one of the taxable values in force
EqualsTaxableValue(row, opts) ==
    \E i \in 1..Len(TaxableKeywords(opts)) :
        TaxTypeOf(row, opts) = TaxableKeywords(opts)[i]

NotTaxableValue(row, opts) == ~EqualsTaxableValue(row, opts)

\* C27: in Tax-Type mode a row whose tax type equals one of the taxable
\* values in force is added to the taxable total of its month and never to
\* the tax-exempt total: the taxable total holds at least the amounts of
\* those rows and the tax-exempt total at most the amounts of the other rows
\* (the amounts of the rows are not negative)
C27_TaxableValueIsTaxable ==
    TaxTypeCall =>
        \A i \in 1..Len(call.args[1]) :
            (/\ HasDate(call.args[1][i], call.args[2], NoDate)
             /\ RowAmount(call.args[1][i], call.args[2]) # 0) =>
                \E k \in 1..Len(call.ret) :
                    /\ InMonth(call.args[1][i], call.args[2], NoDate,
                               call.ret[k].year, call.ret[k].month)
                    /\ call.ret[k].taxableAmount >=
                          MonthSum(call.args[1], call.args[2], NoDate,
                                   call.ret[k].year, call.ret[k].month,
                                   LAMBDA r : EqualsTaxableValue(r, call.args[2]))
                    /\ call.ret[k].taxExemptAmount <=
                          MonthSum(call.args[1], call.args[2], NoDate,
                                   call.ret[k].year, call.ret[k].month,
                                   LAMBDA r : NotTaxableValue(r, call.args[2]))

\* The rows that are accumulated: parsable non-summary date, non-zero amount
AccumulatedRows(rows, opts) ==
    SelectSeq(rows, LAMBDA r : HasDate(r, opts, NoDate) /\ RowAmount(r, opts) # 0)

AnyRow(row) == TRUE

\* C28: in Tax-Type mode each row with a parsable non-summary date and a
\* non-zero amount adds its amount to exactly one of the two totals of the
\* record of its month: the two totals of a record add up to the amounts of
\* the month's rows, and the totals of all records to the amounts of all
\* those rows
C28_AmountsInOneBucket ==
    TaxTypeCall =>
        /\ \A k \in 1..Len(call.ret) :
              call.ret[k].taxExemptAmount + call.ret[k].taxableAmount
                  = MonthSum(call.args[1], call.args[2], NoDate,
                             call.ret[k].year, call.ret[k].month, AnyRow)
        /\ SumField(call.ret, "taxExemptAmount") + SumField(call.ret, "taxableAmount")
              = SumSeq([i \in 1..Len(AccumulatedRows(call.args[1], call.args[2])) |->
                           RowAmount(AccumulatedRows(call.args[1], call.args[2])[i],
                                     call.args[2])])
        /\ \A i \in 1..Len(AccumulatedRows(call.args[1], call.args[2])) :
              \E k \in 1..Len(call.ret) :
                  InMonth(AccumulatedRows(call.args[1], call.args[2])[i],
                          call.args[2], NoDate, call.ret[k].year, call.ret[k].month)

\* C28 witness: a tax-exempt row and a row of an unknown tax type of one
\* month came out as one record with both totals
C28_Witness ==
    /\ TaxTypeCall
    /\ Len(call.args[1]) = 2
    /\ TaxTypeOf(call.args[1][1], call.args[2]) = MyeonSe
    /\ TaxTypeOf(call.args[1][2], call.args[2]) = Unknown
    /\ Len(call.ret) = 1
    /\ call.ret[1].taxExemptAmount = 100
    /\ call.ret[1].taxableAmount = 100

-----------------------------------------------------------------------------
(* parseMonthlyData on one row whose date cell is a full date in one of    *)
(* the formats of Strategies 0, 5, 7, 8 and 9 of parseDate, the day being  *)
(* any of 1..31 whatever the month.                                        *)

DotString(y, m, d) == NatDigits(y) \o <<".">> \o Pad2(m) \o <<".">> \o Pad2(d)

\* "2024.02.30 ~ 2024.03.05": a range that starts at the date
RangeString(y, m, d) ==
    DotString(y, m, d) \o <<" ", "~", " ">> \o DotString(y + 1, 1, 5)

DateFormats == {"yyyy-MM-dd", "yyyy.MM.dd", "korean", "M/D/YYYY", "range"}

Written(format, y, m, d) ==
    IF format = "yyyy-MM-dd" THEN IsoString(y, m, d)
    ELSE IF format = "yyyy.MM.dd" THEN DotString(y, m, d)
    ELSE IF format = "korean" THEN KoreanString(y, m, d)
    ELSE IF format = "M/D/YYYY" THEN UsString(y, m, d)
    ELSE RangeString(y, m, d)

WrittenYears == {2023, 2024}
WrittenDays == {1, 15, 28, 29, 30, 31}

NextDates ==
    \E format \in DateFormats, y \in WrittenYears, m \in 1..12, d \in WrittenDays :
        CallParseMonthlyData(<<Row(Str(Written(format, y, m, d)), Str(MyeonSe),
                                   Num(100), Num(30))>>,
                             TraditionalOptions)

SpecDates == Idle /\ [][NextDates]_vars

\* The row of the call has the date written in the format
DateWritten(format, y, m, d) ==
    /\ TraditionalCall
    /\ Len(call.args[1]) = 1
    /\ DateCellOf(call.args[1][1], call.args[2]) = Str(Written(format, y, m, d))

\* C29: for every date string in a full-date format that parseDate accepts,
\* the year and the month of the record are those written in the string,
\* also when the written day is past the end of the month
C29_WrittenYearAndMonth ==
    \A format \in DateFormats, y \in WrittenYears, m \in 1..12, d \in WrittenDays :
        DateWritten(format, y, m, d) /\ call.ret # <<>> =>
            /\ call.ret[1].year = y
            /\ call.ret[1].month = m

-----------------------------------------------------------------------------
(* Claims about the options object of readExcelFile *)

ColumnFields ==
    {"dateColumn", "taxExemptColumn", "taxableColumn", "taxTypeColumn",
     "amountColumn", "amountColumns"}

\* C30: readExcelFile leaves the options object it is given unchanged: after
\* any call the column names of the object are those the caller supplied
C30_OptionsUnchanged ==
    call.op = "readExcelFile" =>
        /\ \A field \in ColumnFields : call.ret.options[field] = call.args[2][field]
        /\ \A field \in ColumnFields : options[field] = call.args[2][field]

====
